---- MODULE Spec2Model ----
(***************************************************************************)
(* The deep-research pipeline of ResearchManager                           *)
(* (src/2_openai/deep_research/research_manager.py, and its twin           *)
(* src/training/deep_search/research_manager.py): an async generator `run` *)
(* that plans searches, fans them out as asyncio tasks, aggregates the     *)
(* successful results, writes a report, sends it by email and yields       *)
(* status strings on the way, the report's markdown last.                  *)
(*                                                                         *)
(* The external agents (Runner.run on planner, search, writer and email    *)
(* agent) are the environment: each call either returns a value or raises. *)
(*                                                                         *)
(* Further programs of the repository, each with its own variables and its *)
(* own specification, the others' variables held at rest:                  *)
(*   ChatSpec     the tool-using chat of src/training/test3.py             *)
(*   HandlerSpec  handle_tool_calls of src/training/test3.py               *)
(*   TradingSpec  the trading UI of engineering_team_2/output/app.py       *)
(*   EvalSpec     the evaluated chat of src/training/test2.py              *)
(*   WrapperSpec  the wrapper of src/6_mcp/playwright_mcp_server.py        *)
(*   RoundsSpec   perform_searches in two concurrent runs of the pipeline  *)
(***************************************************************************)
EXTENDS Integers, Sequences, FiniteSets, Bags, TLC

VARIABLES
    variant,        \* which of the two copies of research_manager.py runs
    query,          \* run's argument
    pc,             \* position of the generator `run`
    stream,         \* the elements `run` has yielded so far, in order
    abort,          \* the exception that left `run`, if any: [stage, reason]
    ext_call,       \* per single-call agent: the call's status and the agent's answer
    search_plan,    \* run's local search_plan: the planned WebSearchItems
    tasks,          \* perform_searches' local tasks: one asyncio task per item
    done_queue,     \* as_completed's queue: finished tasks, in completion order
    num_completed,  \* perform_searches' local num_completed
    results,        \* perform_searches' local results
    progress,       \* the progress lines perform_searches printed: <<completed, total>>
    search_results, \* run's local search_results
    report,         \* run's local report (ReportData)
    writer_calls,   \* the inputs the writer agent was run with
    email_calls,    \* the inputs the email agent was run with
    \* chat of src/training/test3.py
    chat_pc,        \* position of chat: "idle", "called", "loop", "awaiting", "returned"
    message,        \* chat's parameter message (rebound to the model's message at line 247)
    history,        \* chat's parameter history
    messages,       \* chat's local messages
    response,       \* chat's local response: the model's last answer
    done,           \* chat's local done
    returned,       \* the value chat returned
    model_calls,    \* the message lists the model was called with, in order
    tool_runs,      \* the tool functions that were run, in order
    \* handle_tool_calls of src/training/test3.py, called on its own
    h_pc,           \* "idle", "called", "returned", "raised"
    h_tool_calls,   \* its argument
    h_outcome,      \* what it returned or raised
    h_runs,         \* the tool functions it ran, in order
    \* the trading UI of src/3_crew/engineering_team_2/output/app.py
    account,        \* the module's global account: None or an Account
    ui_out,         \* how the last handler ended: the five values it returned, or its exception
    clicks,         \* the number of handler calls so far
    last_click,     \* the last handler call: [handler, args]
    acct_call,      \* the last call of a method of Account: [op, arg, before, outcome, click]
    \* the evaluated chat of src/training/test2.py
    ev_pc,          \* position of chat: "idle", "called", "generating", "evaluating", "regenerating", "returned"
    ev_message,     \* chat's parameter message
    ev_history,     \* chat's parameter history
    reply,          \* chat's local reply
    evaluation,     \* chat's local evaluation
    generator_calls,    \* the message lists the generator model was called with, in order
    generator_answers,  \* the contents the generator model answered with, in order
    evaluator_calls,    \* the arguments evaluate was called with, in order
    ev_returned,    \* the value chat returned
    \* the wrapper of src/6_mcp/playwright_mcp_server.py, its client and its child
    client_mode,    \* "rpc": the client awaits each answer; "batch": it writes and closes
    c_sent,         \* the number of requests the client wrote to the wrapper's stdin
    c_closed,       \* the client closed the wrapper's stdin
    in_pipe,        \* the wrapper's stdin pipe
    w_pc,           \* position of the wrapper
    w_acc,          \* what the read in progress has taken from its pipe so far
    child_stdin,    \* the child's stdin: "open" or "eof"
    ch_pc,          \* the child: "running" or "exited"
    ch_plan,        \* the writes the child still has to make, in order
    child_out,      \* the child's stdout pipe
    child_err,      \* the child's stderr pipe
    forwarded,      \* what the wrapper wrote to its own stdout and stderr
    returncode,     \* process.returncode
    exit_code,      \* the wrapper's exit status
    \* concurrent runs of the pipeline, each on its own ResearchManager()
    rounds          \* per run, the frame of perform_searches: its plan, tasks and local lists

research_vars == <<variant, query, pc, stream, abort, ext_call, search_plan, tasks, done_queue,
                   num_completed, results, progress, search_results, report,
                   writer_calls, email_calls>>
chat_vars == <<chat_pc, message, history, messages, response, done, returned, model_calls,
               tool_runs>>
handler_vars == <<h_pc, h_tool_calls, h_outcome, h_runs>>
trading_vars == <<account, ui_out, clicks, last_click, acct_call>>
evaluated_vars == <<ev_pc, ev_message, ev_history, reply, evaluation, generator_calls,
                   generator_answers, evaluator_calls, ev_returned>>
wrapper_vars == <<client_mode, c_sent, c_closed, in_pipe, w_pc, w_acc, child_stdin, ch_pc,
                 ch_plan, child_out, child_err, forwarded, returncode, exit_code>>
rounds_vars == <<rounds>>

vars == <<research_vars, chat_vars, handler_vars, trading_vars, evaluated_vars, wrapper_vars, rounds_vars>>

\* The variables of the programs other than the one an action belongs to.
outside_research == <<chat_vars, handler_vars, trading_vars, evaluated_vars, wrapper_vars, rounds_vars>>
outside_chat == <<research_vars, handler_vars, trading_vars, evaluated_vars, wrapper_vars, rounds_vars>>
outside_handler == <<research_vars, chat_vars, trading_vars, evaluated_vars, wrapper_vars, rounds_vars>>
outside_trading == <<research_vars, chat_vars, handler_vars, evaluated_vars, wrapper_vars, rounds_vars>>
outside_evaluated == <<research_vars, chat_vars, handler_vars, trading_vars, wrapper_vars, rounds_vars>>
outside_wrapper == <<research_vars, chat_vars, handler_vars, trading_vars, evaluated_vars, rounds_vars>>
outside_rounds == <<research_vars, chat_vars, handler_vars, trading_vars, evaluated_vars, wrapper_vars>>

\* A program that is not running in the specification at hand.
ChatIdle ==
    /\ chat_pc = "idle" /\ message = "" /\ history = <<>> /\ messages = <<>>
    /\ response = "none" /\ done = FALSE /\ returned = "none"
    /\ model_calls = <<>> /\ tool_runs = <<>>
HandlerIdle ==
    /\ h_pc = "idle" /\ h_tool_calls = <<>> /\ h_outcome = "none" /\ h_runs = <<>>
TradingIdle ==
    /\ account = "idle" /\ ui_out = "none" /\ clicks = 0 /\ last_click = "none"
    /\ acct_call = "none"
EvaluatedIdle ==
    /\ ev_pc = "idle" /\ ev_message = "" /\ ev_history = <<>> /\ reply = "none"
    /\ evaluation = "none" /\ generator_calls = <<>> /\ generator_answers = <<>>
    /\ evaluator_calls = <<>> /\ ev_returned = "none"
WrapperIdle ==
    /\ client_mode = "idle" /\ c_sent = 0 /\ c_closed = FALSE /\ in_pipe = <<>>
    /\ w_pc = "idle" /\ w_acc = <<>> /\ child_stdin = "open" /\ ch_pc = "idle"
    /\ ch_plan = <<>> /\ child_out = <<>> /\ child_err = <<>> /\ forwarded = <<>>
    /\ returncode = -1 /\ exit_code = -1
RoundsIdle ==
    rounds = <<>>

---------------------------------------------------------------------------
(* Bounds of the model and the small sets the environment draws from.      *)

MaxSearches == 3

\* "openai": src/2_openai/deep_research; "training": src/training/deep_search.
Variants == {"openai", "training"}

UserQueries == {"query"}
Items == { [query |-> "qA", reason |-> "why"], [query |-> "qB", reason |-> "why"] }
Texts == {"t1", "t2"}
Summaries == {"s1"}
Markdowns == {"m1", "m2"}
Errors == {"e1", "e2"}
SearchErrors == {"e1"}

\* Python's None, the value `search` returns for a failed unit.
None == "None"

RECURSIVE SeqsUpTo(_, _)
SeqsUpTo(S, n) ==
    IF n = 0 THEN { <<>> }
    ELSE LET shorter == SeqsUpTo(S, n - 1)
         IN  shorter \cup { Append(s, x) : s \in { t \in shorter : Len(t) = n - 1 }, x \in S }

\* WebSearchPlan.searches: any list of WebSearchItems the planner may answer with.
Plans == SeqsUpTo(Items, MaxSearches)

\* ReportData
Reports == [short_summary : Summaries, markdown_report : Markdowns,
            follow_up_questions : { <<>> }]
NoReport == [short_summary |-> "", markdown_report |-> "", follow_up_questions |-> <<>>]

\* What an external call (Runner.run) did: returned a value or raised.
Ok(v) == [ok |-> TRUE, val |-> v]
Err(e) == [ok |-> FALSE, val |-> e]
\* How a coroutine of the manager completes: it returns or it raises.
Return(v) == [raised |-> FALSE, val |-> v]
Raise(e) == [raised |-> TRUE, val |-> e]

NoAbort == [stage |-> "none", reason |-> "none"]

\* The state of a call of a single-call agent (planner, writer, email).
NotCalled == [status |-> "not_called", answer |-> "none"]
InFlight == [status |-> "in_flight", answer |-> "none"]
Answered(ext) == [status |-> IF ext.ok THEN "returned" ELSE "raised", answer |-> ext.val]

\* The strings `run` yields between the stages.
TraceUrl == "View trace: https://platform.openai.com/traces/trace?trace_id"
StatusPlanned ==
    IF variant = "openai" THEN "Searches planned, starting to search..."
    ELSE "Ricerca pianificata, inizio la ricerca..."
StatusSearched ==
    IF variant = "openai" THEN "Searches complete, writing report..."
    ELSE "Ricerca completata, inizio la stesura del report..."
StatusWritten ==
    IF variant = "openai" THEN "Report written, sending email..."
    ELSE "Ho completato il report, preparo la mail..."
StatusSent ==
    IF variant = "openai" THEN "Email sent, research complete"
    ELSE "Ho iviato la mail"

Yield(s, e) == Append(s, e)

---------------------------------------------------------------------------
(* The coroutines of ResearchManager, as functions of what the external    *)
(* call did.                                                               *)

\* A plan_searches that answers a failed planner call with an empty plan.
plan_searches_Fallback(ext) == IF ext.ok THEN Return(ext.val) ELSE Return(<<>>)

\* plan_searches: no handler around Runner.run, the plan is returned as is.
plan_searches(ext) == IF ext.ok THEN Return(ext.val) ELSE Raise(ext.val)

\* The instruction string search builds from the item.
SearchInput(item) == <<"Search term: ", item.query, "Reason for searching: ", item.reason>>

\* search without its handler: the exception of the external call leaves search.
search_NoHandler(item, ext) == IF ext.ok THEN Return(ext.val) ELSE Raise(ext.val)

\* search: try: return str(result.final_output)  except Exception: return None
search(item, ext) == IF ext.ok THEN Return(ext.val) ELSE Return(None)

\* The instruction string write_report builds.
WriterInput(q, found) == [query |-> q, search_results |-> found]

\* A write_report that answers a failed writer call with a stock report.
write_report_Fallback(ext) ==
    IF ext.ok THEN Return(ext.val)
    ELSE Return([short_summary |-> "s1", markdown_report |-> "m1", follow_up_questions |-> <<>>])

\* write_report: no handler around Runner.run.
write_report(ext) == IF ext.ok THEN Return(ext.val) ELSE Raise(ext.val)

\* A send_email that hands the report's summary to the email agent.
EmailInput_Summary(rep) == rep.short_summary

\* send_email: the input the email agent is run with.
EmailInput(rep) == rep.markdown_report

\* sg.client.mail.send.post as the tool send_mail sees it: it returns a response
\* with a status code, or raises.
PostOutcomes == {Ok(200), Ok(202), Err("HTTPError")}

\* email_agent.py, the tool send_mail: the response of the post is bound to a
\* local and not read; the tool returns {"status": "success"}.
send_mail(post) == IF post.ok THEN Return([status |-> "success"]) ELSE Raise([error |-> post.val])

\* What a returned run of the email agent reports about the delivery: what its
\* tool returned, or the error of the tool.
DeliveryReports == { send_mail(post) : post \in PostOutcomes }

\* A send_email that catches the exception of Runner.run and returns the report.
send_email_Swallow(rep, ext) == Return(rep)

\* send_email: no handler around Runner.run; returns the report it was given.
send_email(rep, ext) == IF ext.ok THEN Return(rep) ELSE Raise(ext.val)

\* A loop body that keeps a result only the first time its text is seen.
Aggregate_Dedup(acc, result) ==
    IF result # None /\ ~(\E k \in 1..Len(acc) : acc[k] = result) THEN Append(acc, result) ELSE acc

\* The loop body without its `is not None` test.
Aggregate_KeepNone(acc, result) == Append(acc, result)

\* perform_searches, the body of the loop: keep a result unless it is None.
Aggregate(acc, result) == IF result # None THEN Append(acc, result) ELSE acc

\* perform_searches, the body of the loop: num_completed += 1, for every result.
Count(n, result) == n + 1

RECURSIVE Gcd(_, _)
Gcd(a, b) == IF b = 0 THEN a ELSE Gcd(b, a % b)

\* perform_searches, the progress line printed after each result. "openai" prints
\* the two numbers, "{num_completed}/{len(tasks)}"; "training" prints their
\* quotient, "{num_completed/len(tasks)}", kept here as the fraction in lowest
\* terms that the printed float denotes.
ProgressLine(n, total) ==
    IF variant = "openai" THEN <<n, total>>
    ELSE <<n \div Gcd(n, total), total \div Gcd(n, total)>>

\* A loop that stops at the first finished task instead of draining the iterator.
LoopExhausted_First == num_completed >= 1 \/ Len(tasks) = 0

\* perform_searches, the end of `for task in asyncio.as_completed(tasks)`:
\* the iterator hands out one awaitable per task.
LoopExhausted == num_completed = Len(tasks)

\* A final yield of the report's other text field.
FinalElement_Summary(rep) == rep.short_summary

\* The last element run yields.
FinalElement(rep) == rep.markdown_report

\* One asyncio task per item of the plan, created and not yet started.
CreateTasks(plan) ==
    [i \in 1..Len(plan) |->
        [input |-> SearchInput(plan[i]), state |-> "scheduled", calls |-> 0,
         ext |-> Err("pending"), completion |-> Return(None)]]

---------------------------------------------------------------------------
(* The state after `ResearchManager().run(query)` was called: an async     *)
(* generator that has not run yet.                                         *)

Init ==
    /\ variant \in Variants
    /\ query \in UserQueries
    /\ pc = "init"
    /\ stream = <<>>
    /\ abort = NoAbort
    /\ ext_call = [a \in {"planner", "writer", "email"} |-> NotCalled]
    /\ search_plan = <<>>
    /\ tasks = <<>>
    /\ done_queue = <<>>
    /\ num_completed = 0
    /\ results = <<>>
    /\ progress = <<>>
    /\ search_results = <<>>
    /\ report = NoReport
    /\ writer_calls = <<>>
    /\ email_calls = <<>>
    /\ ChatIdle
    /\ HandlerIdle
    /\ TradingIdle
    /\ EvaluatedIdle
    /\ WrapperIdle
    /\ RoundsIdle

\* An exception leaves run: the generator is finished, nothing more is yielded.
Propagate(stage, reason) ==
    /\ pc' = "aborted"
    /\ abort' = [stage |-> stage, reason |-> reason]

\* run, up to its first yield: the trace URL.
Run_Start ==
    /\ pc = "init"
    /\ stream' = Yield(stream, TraceUrl)
    /\ pc' = "y_trace"
    /\ UNCHANGED <<outside_research, variant, query, abort, ext_call, search_plan, tasks, done_queue, num_completed,
                   results, progress, search_results, report, writer_calls, email_calls>>

\* run resumes and awaits plan_searches, which awaits the planner agent.
Plan_Call ==
    /\ pc = "y_trace"
    /\ pc' = "planning"
    /\ ext_call' = [ext_call EXCEPT !["planner"] = InFlight]
    /\ UNCHANGED <<outside_research, variant, query, stream, abort, search_plan, tasks, done_queue, num_completed,
                   results, progress, search_results, report, writer_calls, email_calls>>

\* The planner agent answers; run yields the next status or the exception leaves it.
Plan_Complete(ext) ==
    /\ pc = "planning"
    /\ ext_call' = [ext_call EXCEPT !["planner"] = Answered(ext)]
    /\ LET c == plan_searches(ext)
       IN  IF c.raised
           THEN /\ Propagate("Planning", c.val)
                /\ UNCHANGED <<stream, search_plan>>
           ELSE /\ search_plan' = c.val
                /\ stream' = Yield(stream, StatusPlanned)
                /\ pc' = "y_planned"
                /\ UNCHANGED abort
    /\ UNCHANGED <<outside_research, variant, query, tasks, done_queue, num_completed, results, progress,
                   search_results, report, writer_calls, email_calls>>

\* perform_searches up to the loop: one task per item, nothing consumed yet.
Perform_Start ==
    /\ pc = "y_planned"
    /\ pc' = "searching"
    /\ num_completed' = 0
    /\ tasks' = CreateTasks(search_plan)
    /\ results' = <<>>
    /\ done_queue' = <<>>
    /\ UNCHANGED <<outside_research, variant, query, stream, abort, ext_call, search_plan, progress, search_results,
                   report, writer_calls, email_calls>>

\* A fan-out throttled to two searches in flight.
Task_Start_Capped(i) ==
    /\ i \in 1..Len(tasks)
    /\ tasks[i].state = "scheduled"
    /\ \A j \in 1..(i - 1) : tasks[j].state # "scheduled"
    /\ Cardinality({ j \in 1..Len(tasks) : tasks[j].state = "running" }) < 2
    /\ tasks' = [tasks EXCEPT ![i].state = "running", ![i].calls = @ + 1]
    /\ UNCHANGED <<outside_research, variant, query, pc, stream, abort, ext_call, search_plan, done_queue,
                   num_completed, results, progress, search_results, report, writer_calls,
                   email_calls>>

\* The event loop runs the first step of a created task, in creation order:
\* search formats its input and awaits the search agent.
Task_Start(i) ==
    /\ i \in 1..Len(tasks)
    /\ tasks[i].state = "scheduled"
    /\ \A j \in 1..(i - 1) : tasks[j].state # "scheduled"
    /\ tasks' = [tasks EXCEPT ![i].state = "running", ![i].calls = @ + 1]
    /\ UNCHANGED <<outside_research, variant, query, pc, stream, abort, ext_call, search_plan, done_queue, num_completed,
                   results, progress, search_results, report, writer_calls, email_calls>>

\* A search that calls the agent again when the call failed.
Search_Complete_Retry(i, ext) ==
    /\ i \in 1..Len(tasks)
    /\ tasks[i].state = "running"
    /\ IF ext.ok \/ tasks[i].calls > 1
         THEN /\ tasks' = [tasks EXCEPT ![i].state = "done", ![i].ext = ext,
                                        ![i].completion = search(search_plan[i], ext)]
              /\ done_queue' = Append(done_queue, i)
         ELSE /\ tasks' = [tasks EXCEPT ![i].calls = @ + 1]
              /\ UNCHANGED done_queue
    /\ UNCHANGED <<outside_research, variant, query, pc, stream, abort, ext_call, search_plan, num_completed,
                   results, progress, search_results, report, writer_calls, email_calls>>

\* A fan-out in which a failing search cancels the searches still in flight.
Search_Complete_CancelOthers(i, ext) ==
    /\ i \in 1..Len(tasks)
    /\ tasks[i].state = "running"
    /\ LET cancelled == IF ext.ok THEN {}
                        ELSE { j \in 1..Len(tasks) : j # i /\ tasks[j].state = "running" }
           Queue(S) == SelectSeq([k \in 1..Len(tasks) |-> k], LAMBDA k : k \in S)
       IN  /\ tasks' = [ j \in 1..Len(tasks) |->
                           IF j = i
                           THEN [tasks[j] EXCEPT !.state = "done", !.ext = ext,
                                                 !.completion = search(search_plan[j], ext)]
                           ELSE IF j \in cancelled
                           THEN [tasks[j] EXCEPT !.state = "done", !.ext = Err("cancelled"),
                                                 !.completion = Return(None)]
                           ELSE tasks[j] ]
           /\ done_queue' = Append(done_queue, i) \o Queue(cancelled)
    /\ UNCHANGED <<outside_research, variant, query, pc, stream, abort, ext_call, search_plan, num_completed,
                   results, progress, search_results, report, writer_calls, email_calls>>

\* The search agent answers task i; search finishes and as_completed queues the task.
Search_Complete(i, ext) ==
    /\ i \in 1..Len(tasks)
    /\ tasks[i].state = "running"
    /\ tasks' = [tasks EXCEPT ![i].state = "done", ![i].ext = ext,
                              ![i].completion = search(search_plan[i], ext)]
    /\ done_queue' = Append(done_queue, i)
    /\ UNCHANGED <<outside_research, variant, query, pc, stream, abort, ext_call, search_plan, num_completed,
                   results, progress, search_results, report, writer_calls, email_calls>>

\* A loop that awaits the tasks in the order of the list, `for task in tasks`.
Consume_SubmissionOrder ==
    /\ pc = "searching"
    /\ num_completed < Len(tasks)
    /\ tasks[num_completed + 1].state = "done"
    /\ LET c == tasks[num_completed + 1].completion
       IN  /\ results' = Aggregate(results, c.val)
           /\ num_completed' = Count(num_completed, c.val)
           /\ progress' = Append(progress, ProgressLine(Count(num_completed, c.val), Len(tasks)))
    /\ done_queue' = SelectSeq(done_queue, LAMBDA j : j # num_completed + 1)
    /\ UNCHANGED <<outside_research, variant, query, pc, stream, abort, ext_call, search_plan, tasks,
                   search_results, report, writer_calls, email_calls>>

\* A loop turn that also puts its progress line on the stream.
Consume_YieldsTick ==
    /\ pc = "searching"
    /\ done_queue # <<>>
    /\ \A j \in 1..Len(tasks) : tasks[j].state # "scheduled"
    /\ LET c == tasks[Head(done_queue)].completion
       IN  /\ results' = Aggregate(results, c.val)
           /\ num_completed' = Count(num_completed, c.val)
           /\ progress' = Append(progress, ProgressLine(Count(num_completed, c.val), Len(tasks)))
           /\ stream' = Yield(stream, "Searching... completed")
    /\ done_queue' = Tail(done_queue)
    /\ UNCHANGED <<outside_research, variant, query, pc, abort, ext_call, search_plan, tasks, search_results,
                   report, writer_calls, email_calls>>

\* One turn of the loop: await the next finished task, aggregate, count, print.
\* The loop is resumed by the event loop only after the created tasks had
\* their first step.
Consume ==
    /\ pc = "searching"
    /\ done_queue # <<>>
    /\ \A j \in 1..Len(tasks) : tasks[j].state # "scheduled"
    /\ LET c == tasks[Head(done_queue)].completion
       IN  IF c.raised
           THEN /\ Propagate("Searching", c.val)
                /\ UNCHANGED <<results, num_completed, progress>>
           ELSE /\ results' = Aggregate(results, c.val)
                /\ num_completed' = Count(num_completed, c.val)
                /\ progress' = Append(progress, ProgressLine(Count(num_completed, c.val), Len(tasks)))
                /\ UNCHANGED <<pc, abort>>
    /\ done_queue' = Tail(done_queue)
    /\ UNCHANGED <<outside_research, variant, query, stream, ext_call, search_plan, tasks, search_results, report,
                   writer_calls, email_calls>>

\* A perform_searches that raises when no search succeeded.
Perform_Return_FailEmpty ==
    /\ pc = "searching"
    /\ LoopExhausted
    /\ IF results = <<>>
       THEN /\ Propagate("Searching", "no results")
            /\ UNCHANGED <<search_results, stream>>
       ELSE /\ search_results' = results
            /\ stream' = Yield(stream, StatusSearched)
            /\ pc' = "y_searched"
            /\ UNCHANGED abort
    /\ UNCHANGED <<outside_research, variant, query, ext_call, search_plan, tasks, done_queue, num_completed,
                   results, progress, report, writer_calls, email_calls>>

\* perform_searches returns its results; run yields the next status.
Perform_Return ==
    /\ pc = "searching"
    /\ LoopExhausted
    /\ search_results' = results
    /\ stream' = Yield(stream, StatusSearched)
    /\ pc' = "y_searched"
    /\ UNCHANGED <<outside_research, variant, query, abort, ext_call, search_plan, tasks, done_queue, num_completed,
                   results, progress, report, writer_calls, email_calls>>

\* run resumes and awaits write_report, which awaits the writer agent.
Write_Call ==
    /\ pc = "y_searched"
    /\ pc' = "writing"
    /\ writer_calls' = Append(writer_calls, WriterInput(query, search_results))
    /\ ext_call' = [ext_call EXCEPT !["writer"] = InFlight]
    /\ UNCHANGED <<outside_research, variant, query, stream, abort, search_plan, tasks, done_queue, num_completed,
                   results, progress, search_results, report, email_calls>>

\* A run that calls write_report again when it raised.
Write_Complete_Retry(ext) ==
    /\ pc = "writing"
    /\ ext_call' = [ext_call EXCEPT !["writer"] = Answered(ext)]
    /\ LET c == write_report(ext)
       IN  IF c.raised
           THEN /\ pc' = "y_searched"
                /\ UNCHANGED <<stream, report>>
           ELSE /\ report' = c.val
                /\ stream' = Yield(stream, StatusWritten)
                /\ pc' = "y_written"
    /\ UNCHANGED <<outside_research, variant, query, abort, search_plan, tasks, done_queue, num_completed, results,
                   progress, search_results, writer_calls, email_calls>>

\* The writer agent answers; run yields the next status or the exception leaves it.
Write_Complete(ext) ==
    /\ pc = "writing"
    /\ ext_call' = [ext_call EXCEPT !["writer"] = Answered(ext)]
    /\ LET c == write_report(ext)
       IN  IF c.raised
           THEN /\ Propagate("Synthesizing", c.val)
                /\ UNCHANGED <<stream, report>>
           ELSE /\ report' = c.val
                /\ stream' = Yield(stream, StatusWritten)
                /\ pc' = "y_written"
                /\ UNCHANGED abort
    /\ UNCHANGED <<outside_research, variant, query, search_plan, tasks, done_queue, num_completed, results, progress,
                   search_results, writer_calls, email_calls>>

\* A run that yields the report's markdown before it awaits send_email.
Email_Call_ReportFirst ==
    /\ pc = "y_written"
    /\ pc' = "emailing"
    /\ stream' = Yield(stream, FinalElement(report))
    /\ email_calls' = Append(email_calls, EmailInput(report))
    /\ ext_call' = [ext_call EXCEPT !["email"] = InFlight]
    /\ UNCHANGED <<outside_research, variant, query, abort, search_plan, tasks, done_queue, num_completed,
                   results, progress, search_results, report, writer_calls>>

\* run resumes and awaits send_email, which awaits the email agent.
Email_Call ==
    /\ pc = "y_written"
    /\ pc' = "emailing"
    /\ email_calls' = Append(email_calls, EmailInput(report))
    /\ ext_call' = [ext_call EXCEPT !["email"] = InFlight]
    /\ UNCHANGED <<outside_research, variant, query, stream, abort, search_plan, tasks, done_queue, num_completed,
                   results, progress, search_results, report, writer_calls>>

\* A run that goes on after send_email without yielding the email-sent status.
Email_Complete_NoStatus(ext) ==
    /\ pc = "emailing"
    /\ ext_call' = [ext_call EXCEPT !["email"] = Answered(ext)]
    /\ LET c == send_email(report, ext)
       IN  IF c.raised
           THEN Propagate("Notifying", c.val)
           ELSE pc' = "y_sent" /\ UNCHANGED abort
    /\ UNCHANGED <<outside_research, variant, query, stream, search_plan, tasks, done_queue, num_completed, results,
                   progress, search_results, report, writer_calls, email_calls>>

\* A run that reads the delivery report of the email agent and raises when the
\* delivery failed.
Email_Complete_ChecksDelivery(ext) ==
    /\ pc = "emailing"
    /\ ext_call' = [ext_call EXCEPT !["email"] = Answered(ext)]
    /\ LET c == send_email(report, ext)
       IN  IF c.raised \/ ext.val.raised
           THEN /\ Propagate("Notifying", "delivery failed")
                /\ UNCHANGED stream
           ELSE /\ stream' = Yield(stream, StatusSent)
                /\ pc' = "y_sent"
                /\ UNCHANGED abort
    /\ UNCHANGED <<outside_research, variant, query, search_plan, tasks, done_queue, num_completed, results, progress,
                   search_results, report, writer_calls, email_calls>>

\* The email agent answers; run drops send_email's value and yields the next status.
Email_Complete(ext) ==
    /\ pc = "emailing"
    /\ ext_call' = [ext_call EXCEPT !["email"] = Answered(ext)]
    /\ LET c == send_email(report, ext)
       IN  IF c.raised
           THEN /\ Propagate("Notifying", c.val)
                /\ UNCHANGED stream
           ELSE /\ stream' = Yield(stream, StatusSent)
                /\ pc' = "y_sent"
                /\ UNCHANGED abort
    /\ UNCHANGED <<outside_research, variant, query, search_plan, tasks, done_queue, num_completed, results, progress,
                   search_results, report, writer_calls, email_calls>>

\* run resumes and yields the report's markdown.
Yield_Report ==
    /\ pc = "y_sent"
    /\ stream' = Yield(stream, FinalElement(report))
    /\ pc' = "y_report"
    /\ UNCHANGED <<outside_research, variant, query, abort, ext_call, search_plan, tasks, done_queue, num_completed,
                   results, progress, search_results, report, writer_calls, email_calls>>

\* run resumes and falls off its end: the generator is exhausted.
Run_End ==
    /\ pc = "y_report"
    /\ pc' = "done"
    /\ UNCHANGED <<outside_research, variant, query, stream, abort, ext_call, search_plan, tasks, done_queue, num_completed,
                   results, progress, search_results, report, writer_calls, email_calls>>

Next ==
    \/ Run_Start
    \/ Plan_Call
    \/ \E p \in Plans : Plan_Complete(Ok(p))
    \/ \E e \in Errors : Plan_Complete(Err(e))
    \/ Perform_Start
    \/ \E i \in 1..MaxSearches : Task_Start(i)
    \/ \E i \in 1..MaxSearches, t \in Texts : Search_Complete(i, Ok(t))
    \/ \E i \in 1..MaxSearches, e \in SearchErrors : Search_Complete(i, Err(e))
    \/ Consume
    \/ Perform_Return
    \/ Write_Call
    \/ \E r \in Reports : Write_Complete(Ok(r))
    \/ \E e \in Errors : Write_Complete(Err(e))
    \/ Email_Call
    \/ \E d \in DeliveryReports : Email_Complete(Ok(d))
    \/ \E e \in Errors : Email_Complete(Err(e))
    \/ Yield_Report
    \/ Run_End

Spec == Init /\ [][Next]_vars

---------------------------------------------------------------------------
(* Vocabulary of the properties.                                           *)

TaskIds == 1..Len(tasks)

\* perform_searches has returned to run.
SearchesReturned ==
    \/ pc \in {"y_searched", "writing", "y_written", "emailing", "y_sent", "y_report", "done"}
    \/ pc = "aborted" /\ abort.stage \in {"Synthesizing", "Notifying"}

\* The units of the batch whose external search call raised (M of the N).
FailedUnits == { i \in TaskIds : tasks[i].state = "done" /\ ~tasks[i].ext.ok }
SucceededUnits == { i \in TaskIds : tasks[i].state = "done" /\ tasks[i].ext.ok }

---------------------------------------------------------------------------
\* C1: once perform_searches has returned for a batch of N planned searches of
\* which M failed, the list it returned has exactly N - M elements (0 <= M <= N,
\* M = N giving the empty list), and no error left perform_searches.
C1_AggregateLength ==
    SearchesReturned =>
        /\ Len(tasks) = Len(search_plan)
        /\ Cardinality(FailedUnits) + Cardinality(SucceededUnits) = Len(search_plan)
        /\ Len(search_results) = Len(search_plan) - Cardinality(FailedUnits)
        /\ abort.stage # "Searching"

\* A batch of 3 of which 2 failed has returned.
C1_Witness ==
    /\ SearchesReturned
    /\ Len(search_plan) = 3
    /\ Cardinality(FailedUnits) = 2
    /\ Len(search_results) = 1

\* C2: when write_report is invoked, no search task started by perform_searches is
\* still in flight: every task of the batch is finished and was consumed.
C2_JoinComplete ==
    writer_calls # <<>> =>
        /\ Len(tasks) = Len(search_plan)
        /\ \A i \in TaskIds : tasks[i].state = "done"
        /\ done_queue = <<>>
        /\ num_completed = Len(tasks)

\* write_report is being awaited for a batch of at least two units, one of them failed.
C2_Witness ==
    /\ pc = "writing"
    /\ Len(tasks) >= 2
    /\ FailedUnits # {}
    /\ SucceededUnits # {}

\* C3: a search unit whose external call raised finishes by returning None, and no
\* exception of a search unit ever leaves perform_searches or run.
C3_UnitFailureContained ==
    /\ \A i \in TaskIds :
          (tasks[i].state = "done" /\ ~tasks[i].ext.ok) => tasks[i].completion = Return(None)
    /\ \A i \in TaskIds : tasks[i].state = "done" => ~tasks[i].completion.raised
    /\ abort.stage # "Searching"

\* A unit whose external call raised was consumed by the loop, and run went on.
C3_Witness ==
    /\ pc = "y_searched"
    /\ \E i \in TaskIds : ~tasks[i].ext.ok /\ tasks[i].ext.val \in SearchErrors
    /\ num_completed = Len(tasks)

---------------------------------------------------------------------------
(* The stages of the pipeline, read off the generator's position.          *)

Stages == <<"NotStarted", "Planning", "Searching", "Synthesizing", "Notifying", "Done">>

RankOfStage(st) == CHOOSE k \in 0..5 : Stages[k + 1] = st

StageOfPc ==
    CASE pc \in {"init", "y_trace"} -> "NotStarted"
      [] pc \in {"planning", "y_planned"} -> "Planning"
      [] pc \in {"searching", "y_searched"} -> "Searching"
      [] pc \in {"writing", "y_written"} -> "Synthesizing"
      [] pc \in {"emailing", "y_sent", "y_report"} -> "Notifying"
      [] pc = "done" -> "Done"
      [] pc = "aborted" -> abort.stage

StageRank == RankOfStage(StageOfPc)

\* A stage is active while its external call is awaited; Searching also while
\* perform_searches runs or one of its tasks is not finished.
StageActive(st) ==
    CASE st = "Planning" -> ext_call["planner"].status = "in_flight"
      [] st = "Searching" -> pc = "searching" \/ \E i \in TaskIds : tasks[i].state # "done"
      [] st = "Synthesizing" -> ext_call["writer"].status = "in_flight"
      [] st = "Notifying" -> ext_call["email"].status = "in_flight"
      [] OTHER -> FALSE

ActiveStages == { st \in {"Planning", "Searching", "Synthesizing", "Notifying"} : StageActive(st) }

ExclusiveStages ==
    /\ Cardinality(ActiveStages) <= 1
    /\ \A st \in ActiveStages : st = StageOfPc

\* The multiset of the elements of a sequence.
RECURSIVE BagOfSeq(_)
BagOfSeq(sq) == IF sq = <<>> THEN EmptyBag ELSE BagOfSeq(Tail(sq)) (+) SetToBag({Head(sq)})

\* The texts of the units that succeeded, in submission order: a function of the
\* batch and of the per-item outcomes alone.
RECURSIVE SuccessTexts(_)
SuccessTexts(n) ==
    IF n = 0 THEN <<>>
    ELSE IF tasks[n].state = "done" /\ tasks[n].ext.ok
         THEN Append(SuccessTexts(n - 1), tasks[n].ext.val)
         ELSE SuccessTexts(n - 1)

---------------------------------------------------------------------------
\* C4: the stages occur only in the order Planning, Searching, Synthesizing,
\* Notifying, Done: every step keeps the stage or moves to the next one (so no
\* stage is entered twice or re-entered after a later one began), and at most one
\* stage is active at a time, the one the run is in.
C4_StageOrder ==
    /\ [][StageRank' = StageRank \/ StageRank' = StageRank + 1]_vars
    /\ []ExclusiveStages

\* A run went through all the stages with a batch of at least two searches.
C4_Witness ==
    /\ pc = "done"
    /\ Len(tasks) >= 2
    /\ ext_call["email"].status = "returned"

\* C5: in a run in which no stage raised, the last element yielded is the
\* markdown_report of the ReportData the writer call returned, and once it is
\* yielded the stream gets no further element.
C5_FinalElement ==
    /\ [](pc \in {"y_report", "done"} =>
            /\ ext_call["writer"].status = "returned"
            /\ stream # <<>>
            /\ stream[Len(stream)] = ext_call["writer"].answer.markdown_report)
    /\ [][(pc \in {"y_report", "done"}) => (stream' = stream)]_vars

\* A run ended after yielding the report "m2" as its sixth element.
C5_Witness ==
    /\ pc = "done"
    /\ Len(stream) = 6
    /\ stream[6] = "m2"
    /\ report.short_summary # report.markdown_report

\* C6: the collection perform_searches returns, as a multiset, is the multiset of
\* the texts of the units that succeeded: it depends on the batch and the per-item
\* outcomes only, whatever order the tasks completed in.
C6_OrderIndependent ==
    SearchesReturned => BagOfSeq(search_results) = BagOfSeq(SuccessTexts(Len(tasks)))

\* Three units succeeded, two with the same text; the second completed first, so
\* the returned list is not in submission order.
C6_Witness ==
    /\ SearchesReturned
    /\ Len(tasks) = 3
    /\ tasks[1].ext = Ok("t1") /\ tasks[2].ext = Ok("t2") /\ tasks[3].ext = Ok("t1")
    /\ search_results = <<"t2", "t1", "t1">>

---------------------------------------------------------------------------
\* C7: however many of the planned searches fail, no exception leaves the run in
\* Searching; write_report is invoked once, with the query and exactly the
\* aggregated successful results (the empty list when all failed); and short of
\* the end of the run or an exception of a stage call a next step is possible.
C7_SearchFailuresNotFatal ==
    /\ abort.stage # "Searching"
    /\ writer_calls # <<>> =>
          /\ Len(writer_calls) = 1
          /\ writer_calls[1] = WriterInput(query, search_results)
          /\ search_results = results
          /\ Len(search_results) = Cardinality(SucceededUnits)
    /\ pc \notin {"done", "aborted"} => ENABLED Next

\* All three planned searches failed, write_report got the empty list, and the
\* run went through Notifying to its end.
C7_Witness ==
    /\ pc = "done"
    /\ Len(search_plan) = 3
    /\ Cardinality(FailedUnits) = 3
    /\ writer_calls = <<WriterInput(query, <<>>)>>
    /\ email_calls # <<>>

\* C8: when the planning call raised, the run is over with that exception, no
\* search task was created, and neither the writer nor the email agent was called.
C8_PlanningFailureFatal ==
    ext_call["planner"].status = "raised" =>
        /\ pc = "aborted"
        /\ abort = [stage |-> "Planning", reason |-> ext_call["planner"].answer]
        /\ tasks = <<>>
        /\ writer_calls = <<>> /\ ext_call["writer"].status = "not_called"
        /\ email_calls = <<>> /\ ext_call["email"].status = "not_called"

\* The planning call raised "e2" after the trace URL was yielded.
C8_Witness ==
    /\ ext_call["planner"].status = "raised"
    /\ abort.reason = "e2"
    /\ stream = <<TraceUrl>>

\* C9 (as claimed): when the planning or the synthesis call raised, the last element
\* of the stream is an error event carrying the failure reason.
C9_ErrorEventEmitted ==
    (pc = "aborted" /\ abort.stage \in {"Planning", "Synthesizing"}) =>
        /\ stream # <<>>
        /\ stream[Len(stream)] = abort.reason

\* C10: when the synthesis call raised, the run is over with that exception, no
\* report text was yielded on the stream, and the email agent was not called.
C10_SynthesisFailureFatal ==
    ext_call["writer"].status = "raised" =>
        /\ pc = "aborted"
        /\ abort = [stage |-> "Synthesizing", reason |-> ext_call["writer"].answer]
        /\ \A k \in 1..Len(stream) : stream[k] \notin Markdowns
        /\ report = NoReport
        /\ email_calls = <<>> /\ ext_call["email"].status = "not_called"

\* The synthesis call raised "e1" after a search round with a successful unit.
C10_Witness ==
    /\ ext_call["writer"].status = "raised"
    /\ abort.reason = "e1"
    /\ search_results # <<>>
    /\ stream = <<TraceUrl, StatusPlanned, StatusSearched>>

---------------------------------------------------------------------------
\* The planner call returned a plan with no search in it.
EmptyPlanReturned == ext_call["planner"].status = "returned" /\ Len(search_plan) = 0

\* C11 (as claimed): when the planning call returns an empty plan, the run does not
\* proceed to Searching or Synthesizing: perform_searches is not entered and the
\* writer agent is not called.
C11_EmptyPlanRejected ==
    EmptyPlanReturned =>
        /\ pc \notin {"searching", "y_searched", "writing", "y_written", "emailing",
                      "y_sent", "y_report", "done"}
        /\ writer_calls = <<>>

---------------------------------------------------------------------------
\* The elements run yields at its stage boundaries.
StageEvents == {TraceUrl, StatusPlanned, StatusSearched, StatusWritten, StatusSent} \cup Markdowns

\* The number of stream elements that are no stage-boundary element.
TickCount == Cardinality({ k \in 1..Len(stream) : stream[k] \notin StageEvents })

\* C12 (as claimed): the stream carries one event per finished search in addition to
\* the events of the stage boundaries: during the fan-out it holds the two elements
\* yielded before it plus one per consumed result.
C12_TickPerCompletion ==
    /\ pc = "searching" => Len(stream) = 2 + num_completed
    /\ pc = "y_searched" => Len(stream) = 3 + Len(tasks)

\* C12 (amended): the stream carries the stage-boundary elements only; a finished
\* search adds a printed progress line and no stream element, so after the fan-out
\* the stream holds three elements whatever the number of searches.
C12_StageEventsOnly ==
    /\ [](/\ TickCount = 0
          /\ Len(progress) = num_completed
          /\ pc = "searching" => stream = <<TraceUrl, StatusPlanned>>
          /\ pc = "y_searched" => stream = <<TraceUrl, StatusPlanned, StatusSearched>>)
    /\ [][(num_completed' # num_completed) =>
              (stream' = stream /\ Len(progress') = Len(progress) + 1)]_vars

\* A fan-out of three searches has returned: three lines printed, three elements yielded.
C12_Witness ==
    /\ pc = "y_searched"
    /\ Len(tasks) = 3
    /\ Len(progress) = 3
    /\ Len(stream) = 3

---------------------------------------------------------------------------
\* C13 (as claimed): after each consumed result perform_searches reports the pair
\* (completed, total); completed counts the consumed results, never exceeds total
\* and equals total once perform_searches has returned.
C13_PairReported ==
    /\ Len(progress) = num_completed
    /\ \A k \in 1..Len(progress) : progress[k] = <<k, Len(tasks)>>
    /\ num_completed <= Len(tasks)
    /\ SearchesReturned => num_completed = Len(tasks)

\* What does hold of the counter in both copies: one line per consumed result, whose
\* value is k/total (the two numbers themselves in the "openai" copy); the counter
\* grows by exactly 1 with every consumed result, failed or not, and never shrinks.
C13_CounterSteps ==
    /\ [](/\ Len(progress) = num_completed
          /\ \A k \in 1..Len(progress) :
                /\ progress[k][1] * Len(tasks) = k * progress[k][2]
                /\ variant = "openai" => progress[k] = <<k, Len(tasks)>>
          /\ num_completed <= Len(tasks)
          /\ SearchesReturned => num_completed = Len(tasks))
    /\ [][/\ num_completed' \in {num_completed, num_completed + 1}
          /\ (Len(done_queue') < Len(done_queue)) => (num_completed' = num_completed + 1)]_vars

---------------------------------------------------------------------------
\* perform_searches has been entered: its tasks exist.
TasksCreated ==
    /\ pc \notin {"init", "y_trace", "planning", "y_planned"}
    /\ ~(pc = "aborted" /\ abort.stage = "Planning")

\* C14: perform_searches creates exactly one task per item of the plan, each run on
\* the instruction built from its item; a created task can always be started,
\* however many are in flight (no cap); and every task has been started before the
\* first result is consumed.
C14_OneTaskPerItem ==
    /\ TasksCreated =>
          /\ Len(tasks) = Len(search_plan)
          /\ \A i \in TaskIds : tasks[i].input = SearchInput(search_plan[i])
    /\ (\E i \in TaskIds : tasks[i].state = "scheduled") => ENABLED (\E i \in TaskIds : Task_Start(i))
    /\ num_completed >= 1 => \A i \in TaskIds : tasks[i].state # "scheduled"

\* Three searches on different items are in flight at once and none is consumed yet.
C14_Witness ==
    /\ pc = "searching"
    /\ Len(tasks) = 3
    /\ \A i \in TaskIds : tasks[i].state = "running"
    /\ search_plan[1] # search_plan[2]
    /\ num_completed = 0

---------------------------------------------------------------------------
\* C15: results are consumed in completion order: a task that finishes joins the
\* end of the queue of finished tasks, and whenever the list of results grows it
\* grows at its end by the text of the task at the head of that queue, which then
\* leaves the queue. So of two successful searches the one that finished first
\* stands earlier in the returned list, wherever the two stand in the plan.
C15_CompletionOrder ==
    /\ [][\A i \in TaskIds :
             (tasks[i].state # "done" /\ tasks'[i].state = "done") =>
                 done_queue' = Append(done_queue, i)]_vars
    /\ [][(results' # results) =>
             /\ done_queue # <<>>
             /\ tasks[Head(done_queue)].ext.ok
             /\ results' = Append(results, tasks[Head(done_queue)].ext.val)
             /\ done_queue' = Tail(done_queue)]_vars
    /\ [](\A k \in 1..Len(done_queue) : tasks[done_queue[k]].state = "done")

\* The second search of the plan finished and was consumed while the first, which
\* succeeds later, was still in flight: the list starts with the second's text.
C15_Witness ==
    /\ SearchesReturned
    /\ Len(tasks) = 2
    /\ tasks[1].ext = Ok("t1") /\ tasks[2].ext = Ok("t2")
    /\ search_results = <<"t2", "t1">>

---------------------------------------------------------------------------
\* C16: every item of the plan gets exactly one call of the search agent, failed
\* or not, and every task is handed to the loop exactly once; at every point of
\* the round  |results| <= num_completed <= |tasks| = |items|.
C16_OncePerItem ==
    /\ Len(results) <= num_completed
    /\ num_completed <= Len(tasks)
    /\ TasksCreated => Len(tasks) = Len(search_plan)
    /\ \A i \in TaskIds : tasks[i].calls = IF tasks[i].state = "scheduled" THEN 0 ELSE 1
    /\ \A k, l \in 1..Len(done_queue) : done_queue[k] = done_queue[l] => k = l
    /\ num_completed + Len(done_queue) = Cardinality({i \in TaskIds : tasks[i].state = "done"})
    /\ SearchesReturned => num_completed = Len(search_plan)

\* A round of three items is over, one of the searches failed on its only call,
\* and the list of results is shorter than the number of results consumed.
C16_Witness ==
    /\ SearchesReturned
    /\ Len(search_plan) = 3
    /\ \E i \in TaskIds : ~tasks[i].ext.ok /\ tasks[i].calls = 1
    /\ Len(search_results) = 2
    /\ num_completed = 3

---------------------------------------------------------------------------
\* The report's text is an element of the stream.
ReportStreamed == \E k \in 1..Len(stream) : stream[k] \in Markdowns

\* The email agent has been called (send_email was invoked), whatever came of it.
NotifyAttempted == ext_call["email"].status # "not_called"

\* C17 (as claimed): once send_email has been invoked the report has been produced
\* and its text is already on the stream.
C17_StreamedBeforeNotify ==
    NotifyAttempted => (report \in Reports /\ ReportStreamed)

\* C17 (amended): once send_email has been invoked the report has been produced by
\* write_report, but its text is not on the stream while the call is in flight;
\* the text is on the stream only when the email agent's call has returned, and a
\* run that the call's exception ended holds the four elements yielded before it.
C17_ProducedNotStreamed ==
    /\ NotifyAttempted =>
          /\ report \in Reports
          /\ ext_call["writer"] = Answered(Ok(report))
    /\ ext_call["email"].status \in {"in_flight", "raised"} => ~ReportStreamed
    /\ ReportStreamed => ext_call["email"].status = "returned"
    /\ ext_call["email"].status = "raised" =>
          /\ pc = "aborted"
          /\ stream = <<TraceUrl, StatusPlanned, StatusSearched, StatusWritten>>

\* The report was written, the email agent's call raised, and the run is over
\* without the report's text on the stream.
C17_Witness ==
    /\ report \in Reports
    /\ ext_call["email"].status = "raised"
    /\ pc = "aborted"
    /\ ~ReportStreamed
    /\ Len(stream) = 4

---------------------------------------------------------------------------
\* C18 (as claimed): once the email agent's call is over, returned or raised, the
\* run goes on to its end: it is at one of the last yields or exhausted, not ended
\* by an exception.
C18_DoneRegardless ==
    ext_call["email"].status \in {"returned", "raised"} => pc \in {"y_sent", "y_report", "done"}

\* C18 (amended): the run is exhausted (Done) only when the email agent's call
\* returned, and after a call that returned the remaining yields are always
\* enabled; a call that raised ends the run in Notifying with the call's
\* exception, and nothing follows.
C18_DoneOnlyOnReturn ==
    /\ pc = "done" => ext_call["email"].status = "returned"
    /\ ext_call["email"].status = "returned" =>
          /\ pc \in {"y_sent", "y_report", "done"}
          /\ pc = "y_sent" => ENABLED Yield_Report
          /\ pc = "y_report" => ENABLED Run_End
    /\ ext_call["email"].status = "raised" =>
          /\ pc = "aborted"
          /\ abort = [stage |-> "Notifying", reason |-> ext_call["email"].answer]
          /\ ~ENABLED Next

\* The report was written and the email agent's call raised e2: the run is over in
\* Notifying with e2 as its exception.
C18_Witness ==
    /\ ext_call["writer"].status = "returned"
    /\ ext_call["email"] = Answered(Err("e2"))
    /\ abort = [stage |-> "Notifying", reason |-> "e2"]

---------------------------------------------------------------------------
\* C19: the email agent is called at most once in a run, only after write_report
\* returned, with the markdown_report of the report the writer gave; the report
\* kept by run stays that report to the end, and the last element of a complete
\* stream is the text the email agent was given.
C19_NotifyOnceWithReport ==
    /\ [](/\ Len(email_calls) <= 1
          /\ (email_calls # <<>>) = NotifyAttempted
          /\ email_calls # <<>> =>
                /\ ext_call["writer"].status = "returned"
                /\ report = ext_call["writer"].answer
                /\ email_calls[1] = ext_call["writer"].answer.markdown_report
          /\ pc \in {"y_report", "done"} =>
                /\ email_calls # <<>>
                /\ stream[Len(stream)] = email_calls[1])
    /\ [][(report \in Reports) => (report' = report)]_vars

\* A complete run whose report has a markdown text other than its summary; the
\* email agent was called once, with the text the stream ends in.
C19_Witness ==
    /\ pc = "done"
    /\ email_calls = <<"m1">>
    /\ report.short_summary # "m1"
    /\ stream[Len(stream)] = "m1"

---------------------------------------------------------------------------
\* The elements a run without an exception yields, in order.
FullStream(rep) ==
    <<TraceUrl, StatusPlanned, StatusSearched, StatusWritten, StatusSent, FinalElement(rep)>>

\* The number of elements yielded before the stage's call is awaited.
YieldsBefore(st) ==
    CASE st = "Planning" -> 1
      [] st = "Searching" -> 2
      [] st = "Synthesizing" -> 3
      [] st = "Notifying" -> 4

\* C20: the stream is at every point a prefix of the six elements trace URL,
\* searches planned, searches complete, report written, email sent, report text;
\* the trace URL is on it before the planner is called; an exhausted run holds all
\* six, and a run ended by an exception in a stage holds exactly the elements
\* yielded before that stage's call, the last being the status that precedes it.
C20_StreamShape ==
    /\ Len(stream) <= 6
    /\ \A k \in 1..Len(stream) :
          stream[k] = IF k < 6 THEN FullStream(NoReport)[k] ELSE FullStream(report)[k]
    /\ ext_call["planner"].status # "not_called" => stream # <<>>
    /\ pc = "done" => (report \in Reports /\ stream = FullStream(report))
    /\ pc = "aborted" =>
          /\ abort.stage \in {"Planning", "Synthesizing", "Notifying"}
          /\ stream = SubSeq(FullStream(NoReport), 1, YieldsBefore(abort.stage))

\* A run of the training copy that went through all stages: its six elements.
C20_Witness ==
    /\ variant = "training"
    /\ pc = "done"
    /\ abort = NoAbort
    /\ stream = <<TraceUrl, "Ricerca pianificata, inizio la ricerca...",
                  "Ricerca completata, inizio la stesura del report...",
                  "Ho completato il report, preparo la mail...", "Ho iviato la mail", "m1">>

---------------------------------------------------------------------------
\* Task i finishes in this step with a failed external call.
FailsNow(i) ==
    /\ i \in TaskIds
    /\ tasks[i].state = "running"
    /\ tasks'[i].state = "done"
    /\ ~tasks'[i].ext.ok

\* Nothing but task i and its place in the queue of finished tasks changes.
OnlyUnitChanges(i) ==
    /\ Len(tasks') = Len(tasks)
    /\ \A j \in TaskIds : j # i => tasks'[j] = tasks[j]
    /\ done_queue' = Append(done_queue, i)
    /\ results' = results
    /\ num_completed' = num_completed
    /\ pc' = pc

\* The texts in a list of results.
TextsOf(found) == { found[k] : k \in 1..Len(found) }

\* C24: a failure of one search unit does not affect the others. The step in
\* which a unit fails changes no other task, cancels none and leaves the
\* aggregate as it is; a finished task keeps its outcome, which is the one its
\* own external call gave; a task still in flight can still succeed; and once
\* perform_searches has returned, the text of every successful unit is in the
\* list it returned.
C24_FailureIsolated ==
    /\ [][ \A i \in 1..MaxSearches : (FailsNow(i)) => (OnlyUnitChanges(i)) ]_vars
    /\ [][ \A j \in TaskIds : (tasks[j].state = "done") => (tasks'[j] = tasks[j]) ]_vars
    /\ [](\A j \in TaskIds :
             /\ tasks[j].state = "done" => tasks[j].completion = search(search_plan[j], tasks[j].ext)
             /\ tasks[j].state = "running" => \A t \in Texts : ENABLED Search_Complete(j, Ok(t)))
    /\ [](SearchesReturned => \A j \in SucceededUnits : tasks[j].ext.val \in TextsOf(search_results))

\* Of three units the first failed, the second is still in flight and the text
\* of the third is already in the aggregate.
C24_Witness ==
    /\ pc = "searching"
    /\ Len(tasks) = 3
    /\ FailedUnits = {1}
    /\ tasks[2].state = "running"
    /\ SucceededUnits = {3}
    /\ results = <<tasks[3].ext.val>>
---------------------------------------------------------------------------
\* The email-sent status is an element of the stream.
SentYielded == \E k \in 1..Len(stream) : stream[k] = StatusSent

\* The email agent's call returns in this step.
NotifyReturns ==
    /\ ext_call["email"].status = "in_flight"
    /\ ext_call'["email"].status = "returned"

\* C26: the email-sent status is on the stream exactly when the call of the
\* email agent returned without raising, and the report's text follows it as the
\* next element (it is the next step while it is not yet there); what the call
\* reports about the delivery is not read: whatever it is, the step in which the
\* call returns yields the status and goes on; and the tool send_mail returns
\* {"status": "success"} for every response with which the post returns.
C26_YieldsIffNotified ==
    /\ [](SentYielded <=> ext_call["email"].status = "returned")
    /\ [](ReportStreamed =>
             \E k \in 2..Len(stream) :
                 stream[k - 1] = StatusSent /\ stream[k] = report.markdown_report)
    /\ []((ext_call["email"].status = "returned" /\ ~ReportStreamed) =>
             (pc = "y_sent" /\ ENABLED Yield_Report))
    /\ [][ (NotifyReturns) =>
             (stream' = Yield(stream, StatusSent) /\ pc' = "y_sent" /\ abort' = abort) ]_vars
    /\ [](\A post \in PostOutcomes : post.ok => send_mail(post) = Return([status |-> "success"]))

\* The tool of the email agent failed, the agent's call returned all the same,
\* and the run ended with the email-sent status and the report on its stream.
C26_Witness ==
    /\ pc = "done"
    /\ ext_call["email"].status = "returned"
    /\ ext_call["email"].answer.raised
    /\ stream[Len(stream) - 1] = StatusSent
    /\ stream[Len(stream)] = report.markdown_report
---------------------------------------------------------------------------
(* The tool-using chat of src/training/test3.py: chat calls the model in a *)
(* loop and hands the tool calls of an answer to handle_tool_calls. The    *)
(* model (deepseek.chat.completions.create) is the environment.            *)

MaxToolCalls == 3
MaxModelCalls == 2

\* The functions handle_tool_calls finds in globals(), and a name it does not find.
ToolNames == {"record_user_details", "record_unknown_question"}
UnknownTool == "unknown_tool"
ToolCalls == [id : {"call_1", "call_2"}, name : ToolNames \cup {UnknownTool}]
ToolCallLists == SeqsUpTo(ToolCalls, MaxToolCalls)

UserMessages == {"hello", "question"}
Histories == { <<>>, <<[role |-> "user", content |-> "hi"], [role |-> "assistant", content |-> "a1"]>> }
Contents == {"a1", "a2"}

\* The values of finish_reason the chat completions API answers with.
FinishReasons == {"stop", "length", "tool_calls"}

\* The answers of the model: a final one with a text, or one that requests tools.
Responses ==
    { [finish_reason |-> f, message |-> [role |-> "assistant", content |-> c, tool_calls |-> <<>>]] :
          f \in FinishReasons \ {"tool_calls"}, c \in Contents }
    \cup
    { [finish_reason |-> "tool_calls",
       message |-> [role |-> "assistant", content |-> None, tool_calls |-> tc]] :
          tc \in ToolCallLists \ {<<>>} }

SystemMessage == [role |-> "system", content |-> "system_prompt"]

\* record_user_details and record_unknown_question return {"recorded": "ok"};
\* a name that is no global gives the fallback {}.
RunTool(tool_name) == IF tool_name \in ToolNames THEN [recorded |-> "ok"] ELSE <<>>

\* json.dumps of a tool's result.
Dumps(result) == IF result = <<>> THEN "{}" ELSE "{\"recorded\": \"ok\"}"

\* handle_tool_calls: the for loop only binds tool_name, arguments and tool_call;
\* the lookup, the call of the tool and the append follow the loop, so they act on
\* the last element, and on an empty list tool_name is unbound.
handle_tool_calls(tool_calls) ==
    IF tool_calls = <<>>
    THEN Raise("UnboundLocalError")
    ELSE LET tool_call == tool_calls[Len(tool_calls)]
         IN  Return(<<[role |-> "tool",
                       content |-> Dumps(RunTool(tool_call.name)),
                       tool_call_id |-> tool_call.id]>>)

\* The tool functions handle_tool_calls runs for a list of tool calls.
ToolsRun(tool_calls) ==
    IF tool_calls = <<>> THEN <<>>
    ELSE LET tool_call == tool_calls[Len(tool_calls)]
         IN  IF tool_call.name \in ToolNames THEN <<tool_call.name>> ELSE <<>>

\* ResearchManager.run is not called in the specification at hand.
ResearchIdle ==
    /\ variant = "openai" /\ query = "query" /\ pc = "init" /\ stream = <<>>
    /\ abort = NoAbort
    /\ ext_call = [a \in {"planner", "writer", "email"} |-> NotCalled]
    /\ search_plan = <<>> /\ tasks = <<>> /\ done_queue = <<>> /\ num_completed = 0
    /\ results = <<>> /\ progress = <<>> /\ search_results = <<>> /\ report = NoReport
    /\ writer_calls = <<>> /\ email_calls = <<>>

\* Gradio calls chat(message, history).
ChatInit ==
    /\ chat_pc = "called"
    /\ message \in UserMessages
    /\ history \in Histories
    /\ messages = <<>>
    /\ response = "none"
    /\ done = FALSE
    /\ returned = "none"
    /\ model_calls = <<>>
    /\ tool_runs = <<>>
    /\ ResearchIdle
    /\ HandlerIdle
    /\ TradingIdle
    /\ EvaluatedIdle
    /\ WrapperIdle
    /\ RoundsIdle

\* chat, lines 222-230: the message list and done = False.
Chat_Start ==
    /\ chat_pc = "called"
    /\ messages' = <<SystemMessage>> \o history \o <<[role |-> "user", content |-> message]>>
    /\ done' = FALSE
    /\ chat_pc' = "loop"
    /\ UNCHANGED <<outside_chat, message, history, response, returned, model_calls, tool_runs>>

\* chat, lines 232-237: `while not done`, the model is called with messages.
Chat_Call ==
    /\ chat_pc = "loop"
    /\ ~done
    /\ Len(model_calls) < MaxModelCalls
    /\ model_calls' = Append(model_calls, messages)
    /\ chat_pc' = "awaiting"
    /\ UNCHANGED <<outside_chat, message, history, messages, response, done, returned, tool_runs>>

\* chat, lines 237-257: the model answers; the body of the loop after the call.
Chat_Response(resp) ==
    /\ chat_pc = "awaiting"
    /\ response' = resp
    /\ IF resp.finish_reason = "tool_call"
       THEN LET c == handle_tool_calls(resp.message.tool_calls)
            IN  IF c.raised
                THEN /\ returned' = c
                     /\ chat_pc' = "raised"
                     /\ UNCHANGED <<message, messages, done, tool_runs>>
                ELSE /\ message' = resp.message
                     /\ messages' = Append(messages, resp.message) \o c.val
                     /\ tool_runs' = tool_runs \o ToolsRun(resp.message.tool_calls)
                     /\ chat_pc' = "loop"
                     /\ UNCHANGED <<done, returned>>
       ELSE /\ done' = TRUE
            /\ chat_pc' = "loop"
            /\ UNCHANGED <<message, messages, returned, tool_runs>>
    /\ UNCHANGED <<outside_chat, history, model_calls>>

\* chat, line 259: the loop is left and the last answer's content is returned.
Chat_Return ==
    /\ chat_pc = "loop"
    /\ done
    /\ returned' = Return(response.message.content)
    /\ chat_pc' = "returned"
    /\ UNCHANGED <<outside_chat, message, history, messages, response, done, model_calls, tool_runs>>

ChatNext ==
    \/ Chat_Start
    \/ Chat_Call
    \/ \E resp \in Responses : Chat_Response(resp)
    \/ Chat_Return

ChatSpec == ChatInit /\ [][ChatNext]_vars

\* C21: an answer of the model that requests tools is handled (the tool handler
\* runs and the assistant message with the tool results joins messages before the
\* next call of the model), and chat returns only on an answer that requests none.
C21_ToolsHandled ==
    /\ (chat_pc = "loop" /\ model_calls # <<>> /\ response.finish_reason = "tool_calls") =>
          /\ ~done
          /\ Len(messages) > Len(model_calls[Len(model_calls)])
    /\ chat_pc = "returned" => response.finish_reason # "tool_calls"

---------------------------------------------------------------------------
(* handle_tool_calls of src/training/test3.py, called on a list of tool    *)
(* calls.                                                                  *)

HandlerInit ==
    /\ h_pc = "called"
    /\ h_tool_calls \in ToolCallLists
    /\ h_outcome = "none"
    /\ h_runs = <<>>
    /\ ResearchIdle
    /\ ChatIdle
    /\ TradingIdle
    /\ EvaluatedIdle
    /\ WrapperIdle
    /\ RoundsIdle

\* handle_tool_calls runs from its first line to its return or its exception.
Handle ==
    /\ h_pc = "called"
    /\ h_outcome' = handle_tool_calls(h_tool_calls)
    /\ h_runs' = ToolsRun(h_tool_calls)
    /\ h_pc' = IF handle_tool_calls(h_tool_calls).raised THEN "raised" ELSE "returned"
    /\ UNCHANGED <<outside_handler, h_tool_calls>>

HandlerNext == Handle

HandlerSpec == HandlerInit /\ [][HandlerNext]_vars

\* The calls of a list that name a tool function, in order.
KnownTools(tool_calls) ==
    LET names == [k \in 1..Len(tool_calls) |-> tool_calls[k].name]
    IN  SelectSeq(names, LAMBDA n : n \in ToolNames)

\* C23: handle_tool_calls runs the tool of every call of its list and returns one
\* tool message per call, in the order of the calls, each with the id of its call;
\* so the number of messages is the number of calls, for lists of any length.
C23_OneResultPerCall ==
    h_pc \in {"returned", "raised"} =>
        /\ ~h_outcome.raised
        /\ Len(h_outcome.val) = Len(h_tool_calls)
        /\ \A k \in 1..Len(h_tool_calls) :
              /\ h_outcome.val[k].role = "tool"
              /\ h_outcome.val[k].tool_call_id = h_tool_calls[k].id
        /\ h_runs = KnownTools(h_tool_calls)

---------------------------------------------------------------------------
(* The trading UI of src/3_crew/engineering_team_2/output/app.py: six      *)
(* Gradio handlers around the module's global account. The class Account   *)
(* (accounts.py) is not among the sources; its methods are modelled from   *)
(* output/test_accounts.py and the requirements of main.py.                *)

MaxClicks == 4

AccountIds == {"12345", "67890"}
Symbols == {"AAPL"}
NoNumber == [num |-> FALSE, val |-> 0]
Number(n) == [num |-> TRUE, val |-> n]
\* What a gr.Number hands to a handler: a number, or None for an empty field.
AmountInputs == { Number(n) : n \in {-100, 0, 150, 300} } \cup {NoNumber}
QuantityInputs == { Number(n) : n \in {-1, 0, 1, 3} } \cup {NoNumber}
\* What the symbol dropdown hands to a handler: a symbol, or None when none is chosen.
SymbolInputs == {"AAPL", "aapl", None}

\* float(x) and int(x) of a handler's argument: None raises TypeError.
ToFloat(x) == IF x.num THEN Return(x.val) ELSE Raise("TypeError")
ToInt(x) == IF x.num THEN Return(x.val) ELSE Raise("TypeError")
\* symbol.upper(): None has no method upper.
Upper(symbol) ==
    IF symbol = None THEN Raise("AttributeError")
    ELSE Return(IF symbol = "aapl" THEN "AAPL" ELSE symbol)

\* get_share_price: test_accounts.py fixes AAPL at 150.
get_share_price(symbol) == 150

\* account = None
NoAccount == [is_none |-> TRUE]

\* Account(account_id, initial_deposit)
Account_init(account_id, initial_deposit) ==
    [is_none |-> FALSE, account_id |-> account_id, balance |-> initial_deposit,
     initial_deposit |-> initial_deposit, holdings |-> [s \in Symbols |-> 0]]

\* A withdraw without the test of the balance.
Account_withdraw_Unchecked(acct, amount) ==
    IF amount < 0 THEN Raise("ValueError")
    ELSE Return([acct EXCEPT !.balance = @ - amount])

Account_deposit(acct, amount) ==
    IF amount <= 0 THEN Raise("ValueError")
    ELSE Return([acct EXCEPT !.balance = @ + amount])

Account_withdraw(acct, amount) ==
    IF amount < 0 \/ amount > acct.balance THEN Raise("ValueError")
    ELSE Return([acct EXCEPT !.balance = @ - amount])

Account_buy_shares(acct, symbol, quantity) ==
    IF quantity < 0 \/ quantity * get_share_price(symbol) > acct.balance THEN Raise("ValueError")
    ELSE Return([acct EXCEPT !.balance = @ - quantity * get_share_price(symbol),
                             !.holdings[symbol] = @ + quantity])

Account_sell_shares(acct, symbol, quantity) ==
    IF quantity < 0 \/ quantity > acct.holdings[symbol] THEN Raise("ValueError")
    ELSE Return([acct EXCEPT !.balance = @ + quantity * get_share_price(symbol),
                             !.holdings[symbol] = @ - quantity])

\* calculate_portfolio_value: the balance plus the value of the holdings.
PortfolioValue(acct) ==
    acct.balance + acct.holdings["AAPL"] * get_share_price("AAPL")

\* get_account_info, get_holdings, get_profit_loss, get_transactions: the four
\* display fields, each "" (here <<>>) when there is no account.
get_account_info(acct) ==
    IF acct.is_none THEN <<>> ELSE <<"Account ID", acct.account_id, acct.balance, PortfolioValue(acct)>>
get_holdings(acct) ==
    IF acct.is_none THEN <<>>
    ELSE IF \A s \in Symbols : acct.holdings[s] = 0 THEN <<"No holdings">>
    ELSE <<"Current Holdings", acct.holdings["AAPL"]>>
get_profit_loss(acct) ==
    IF acct.is_none THEN <<>> ELSE <<"Profit/Loss", PortfolioValue(acct) - acct.initial_deposit>>
get_transactions(acct) ==
    IF acct.is_none THEN <<>> ELSE <<"Transaction History">>

Display(acct) ==
    <<get_account_info(acct), get_holdings(acct), get_profit_loss(acct), get_transactions(acct)>>
EmptyFields == << <<>>, <<>>, <<>>, <<>> >>

\* The five values a handler returns: the status and the four display fields.
Output(status, fields) == Return([status |-> status, fields |-> fields])
PleaseCreate == Output(<<"Please create an account first">>, EmptyFields)
NoCall == [op |-> "none"]
AccountCall(op, arg, before, outcome) ==
    [op |-> op, arg |-> arg, before |-> before, outcome |-> outcome, click |-> clicks + 1]

\* A call of a handler by Gradio, with the values of its input components.
Click(handler, args) == [handler |-> handler, args |-> args]

\* The module is loaded: account = None, nothing displayed.
TradingInit ==
    /\ account = NoAccount
    /\ ui_out = Output(<<"">>, EmptyFields)
    /\ clicks = 0
    /\ last_click = Click("none", <<>>)
    /\ acct_call = NoCall
    /\ ResearchIdle
    /\ ChatIdle
    /\ HandlerIdle
    /\ EvaluatedIdle
    /\ WrapperIdle
    /\ RoundsIdle

\* A create_account that stores the new account before it tests the deposit.
create_account_StoreFirst(account_id, initial_deposit) ==
    /\ clicks < MaxClicks
    /\ clicks' = clicks + 1
    /\ last_click' = Click("create_account", <<account_id, initial_deposit>>)
    /\ LET f == ToFloat(initial_deposit)
       IN  IF f.raised
           THEN /\ ui_out' = Output(<<"Error creating account: ", f.val>>, EmptyFields)
                /\ UNCHANGED account
           ELSE /\ account' = Account_init(account_id, f.val)
                /\ ui_out' = IF f.val <= 0
                             THEN Output(<<"Initial deposit must be positive">>, EmptyFields)
                             ELSE Output(<<"Account created successfully with ID: ", account_id>>,
                                         Display(Account_init(account_id, f.val)))
    /\ UNCHANGED <<outside_trading, acct_call>>

create_account(account_id, initial_deposit) ==
    /\ clicks < MaxClicks
    /\ clicks' = clicks + 1
    /\ last_click' = Click("create_account", <<account_id, initial_deposit>>)
    /\ LET f == ToFloat(initial_deposit)
       IN  IF f.raised
           THEN /\ ui_out' = Output(<<"Error creating account: ", f.val>>, EmptyFields)
                /\ UNCHANGED account
           ELSE IF f.val <= 0
           THEN /\ ui_out' = Output(<<"Initial deposit must be positive">>, EmptyFields)
                /\ UNCHANGED account
           ELSE /\ account' = Account_init(account_id, f.val)
                /\ ui_out' = Output(<<"Account created successfully with ID: ", account_id>>,
                                    Display(Account_init(account_id, f.val)))
    /\ UNCHANGED <<outside_trading, acct_call>>

\* What a handler does once its argument is converted: the method's outcome c
\* either replaces the account or is shown as "Error: ...".
AfterCall(op, arg, c, success) ==
    /\ acct_call' = AccountCall(op, arg, account, c)
    /\ IF c.raised
       THEN /\ ui_out' = Output(<<"Error: ", c.val>>, Display(account))
            /\ UNCHANGED account
       ELSE /\ account' = c.val
            /\ ui_out' = Output(success, Display(c.val))

\* A conversion of the argument failed inside the try block.
ConversionError(e) ==
    /\ ui_out' = Output(<<"Error: ", e>>, Display(account))
    /\ UNCHANGED <<account, acct_call>>

\* The guard of every handler but create_account.
NeedsAccount ==
    /\ ui_out' = PleaseCreate
    /\ UNCHANGED <<account, acct_call>>

\* A deposit_funds without its try block: the exception leaves the handler.
deposit_funds_NoTry(amount) ==
    /\ clicks < MaxClicks
    /\ clicks' = clicks + 1
    /\ last_click' = Click("deposit_funds", <<amount>>)
    /\ IF account.is_none THEN NeedsAccount
       ELSE LET f == ToFloat(amount)
            IN  IF f.raised THEN ui_out' = Raise(f.val) /\ UNCHANGED <<account, acct_call>>
                ELSE LET c == Account_deposit(account, f.val)
                     IN  /\ acct_call' = AccountCall("deposit", f.val, account, c)
                         /\ IF c.raised
                            THEN ui_out' = Raise(c.val) /\ UNCHANGED account
                            ELSE /\ account' = c.val
                                 /\ ui_out' = Output(<<"Deposit successful">>, Display(c.val))
    /\ UNCHANGED outside_trading

deposit_funds(amount) ==
    /\ clicks < MaxClicks
    /\ clicks' = clicks + 1
    /\ last_click' = Click("deposit_funds", <<amount>>)
    /\ IF account.is_none THEN NeedsAccount
       ELSE LET f == ToFloat(amount)
            IN  IF f.raised THEN ConversionError(f.val)
                ELSE AfterCall("deposit", f.val, Account_deposit(account, f.val),
                               <<"Deposit successful">>)
    /\ UNCHANGED outside_trading

withdraw_funds(amount) ==
    /\ clicks < MaxClicks
    /\ clicks' = clicks + 1
    /\ last_click' = Click("withdraw_funds", <<amount>>)
    /\ IF account.is_none THEN NeedsAccount
       ELSE LET f == ToFloat(amount)
            IN  IF f.raised THEN ConversionError(f.val)
                ELSE AfterCall("withdraw", f.val, Account_withdraw(account, f.val),
                               <<"Withdrawal successful">>)
    /\ UNCHANGED outside_trading

buy_shares(symbol, quantity) ==
    /\ clicks < MaxClicks
    /\ clicks' = clicks + 1
    /\ last_click' = Click("buy_shares", <<symbol, quantity>>)
    /\ IF account.is_none THEN NeedsAccount
       ELSE LET q == ToInt(quantity)
                u == Upper(symbol)
            IN  IF q.raised THEN ConversionError(q.val)
                ELSE IF u.raised THEN ConversionError(u.val)
                ELSE AfterCall("buy_shares", q.val, Account_buy_shares(account, u.val, q.val),
                               <<"Purchase successful: ", q.val, u.val>>)
    /\ UNCHANGED outside_trading

sell_shares(symbol, quantity) ==
    /\ clicks < MaxClicks
    /\ clicks' = clicks + 1
    /\ last_click' = Click("sell_shares", <<symbol, quantity>>)
    /\ IF account.is_none THEN NeedsAccount
       ELSE LET q == ToInt(quantity)
                u == Upper(symbol)
            IN  IF q.raised THEN ConversionError(q.val)
                ELSE IF u.raised THEN ConversionError(u.val)
                ELSE AfterCall("sell_shares", q.val, Account_sell_shares(account, u.val, q.val),
                               <<"Sale successful: ", q.val, u.val>>)
    /\ UNCHANGED outside_trading

\* A refresh_display that shows the fields whether or not there is an account.
refresh_display_Unguarded ==
    /\ clicks < MaxClicks
    /\ clicks' = clicks + 1
    /\ last_click' = Click("refresh_display", <<>>)
    /\ ui_out' = Output(<<"Display refreshed">>, Display(account))
    /\ UNCHANGED <<account, acct_call>>
    /\ UNCHANGED outside_trading

refresh_display ==
    /\ clicks < MaxClicks
    /\ clicks' = clicks + 1
    /\ last_click' = Click("refresh_display", <<>>)
    /\ IF account.is_none THEN NeedsAccount
       ELSE /\ ui_out' = Output(<<"Display refreshed">>, Display(account))
            /\ UNCHANGED <<account, acct_call>>
    /\ UNCHANGED outside_trading

TradingNext ==
    \/ \E id \in AccountIds, d \in AmountInputs : create_account(id, d)
    \/ \E a \in AmountInputs : deposit_funds(a)
    \/ \E a \in AmountInputs : withdraw_funds(a)
    \/ \E s \in SymbolInputs, q \in QuantityInputs : buy_shares(s, q)
    \/ \E s \in SymbolInputs, q \in QuantityInputs : sell_shares(s, q)
    \/ refresh_display

TradingSpec == TradingInit /\ [][TradingNext]_vars

---------------------------------------------------------------------------
\* The last handler call called a method of Account: account is the state after it.
JustCalled == acct_call.op # "none" /\ acct_call.click = clicks

\* The operations of Account that have to be rejected.
MustReject(call) ==
    CASE call.op = "deposit" -> call.arg < 0
      [] call.op = "withdraw" -> call.arg < 0 \/ call.arg > call.before.balance
      [] call.op = "buy_shares" ->
            call.arg < 0 \/ call.arg * get_share_price("AAPL") > call.before.balance
      [] call.op = "sell_shares" -> call.arg < 0 \/ call.arg > call.before.holdings["AAPL"]

\* C22: an operation of Account that has to be rejected raises ValueError, and an
\* operation that raised left balance and holdings as they were; so the balance
\* of an account is never negative and no holding is negative.
C22_RejectedLeavesAccount ==
    /\ JustCalled =>
          /\ MustReject(acct_call) => acct_call.outcome.raised
          /\ acct_call.outcome.raised =>
                /\ acct_call.outcome.val = "ValueError"
                /\ account = acct_call.before
          /\ ~acct_call.outcome.raised => account = acct_call.outcome.val
    /\ ~account.is_none =>
          /\ account.balance >= 0
          /\ \A s \in Symbols : account.holdings[s] >= 0

\* A withdraw of 300 from a balance of 150 has just raised ValueError and the
\* balance is still 150.
C22_Witness ==
    /\ JustCalled
    /\ acct_call.op = "withdraw" /\ acct_call.arg = 300
    /\ acct_call.before.balance = 150
    /\ acct_call.outcome.raised
    /\ account.balance = 150

---------------------------------------------------------------------------
\* C28: a handler other than create_account that is called while account is None
\* returns "Please create an account first" with four empty fields and leaves
\* account None; account leaves None only by a create_account whose initial
\* deposit is a positive number, and is then the account made from its arguments.
C28_NoAccountNoEffect ==
    /\ [][(account.is_none /\ clicks' # clicks /\ last_click'.handler # "create_account") =>
             (ui_out' = PleaseCreate /\ account' = account)]_vars
    /\ [][(account.is_none /\ ~account'.is_none) =>
             (/\ last_click'.handler = "create_account"
              /\ last_click'.args[2].num
              /\ last_click'.args[2].val > 0
              /\ account' = Account_init(last_click'.args[1], last_click'.args[2].val))]_vars

\* buy_shares was called, not as the first handler, while there was no account.
C28_Witness ==
    /\ account.is_none
    /\ clicks >= 2
    /\ last_click.handler = "buy_shares"
    /\ ui_out = PleaseCreate

---------------------------------------------------------------------------
\* The status values with which a handler reports an error.
ErrorStatus(status) ==
    status[1] \in {"Error: ", "Error creating account: ", "Initial deposit must be positive",
                   "Please create an account first"}

---------------------------------------------------------------------------
(* The evaluated chat of src/training/test2.py: chat generates a reply,    *)
(* has it evaluated once and, when it is rejected, generates a second one  *)
(* with rerun. The generator model (deepseek) and the evaluator model      *)
(* (openai) are the environment.                                           *)

EvalMessages == {"question", "brevetto"}
EvalContents == {"a1", "a2", "a3"}
Feedbacks == {"f1", "f2"}
\* Evaluation: is_acceptable and feedback.
Evaluations == [is_acceptable : BOOLEAN, feedback : Feedbacks]

\* chat, lines 270-273: the system prompt, with the Pig Latin order for "brevetto".
SystemFor(msg) ==
    IF msg = "brevetto" THEN <<"system_prompt", "pig_latin">> ELSE <<"system_prompt">>

\* rerun, lines 243-245: the system prompt with the rejected reply and the feedback.
UpdatedSystem(rejected, feedback) == <<"system_prompt", "rejected", rejected, feedback>>

\* The message list a generator call is made with.
GeneratorMessages(system, hist, msg) ==
    <<[role |-> "system", content |-> system]>> \o hist \o <<[role |-> "user", content |-> msg]>>

EvalInit ==
    /\ ev_pc = "called"
    /\ ev_message \in EvalMessages
    /\ ev_history \in Histories
    /\ reply = "none"
    /\ evaluation = "none"
    /\ generator_calls = <<>>
    /\ generator_answers = <<>>
    /\ evaluator_calls = <<>>
    /\ ev_returned = "none"
    /\ ResearchIdle
    /\ ChatIdle
    /\ HandlerIdle
    /\ TradingIdle
    /\ WrapperIdle
    /\ RoundsIdle

\* chat, lines 267-285: the first call of the generator model.
Eval_Generate ==
    /\ ev_pc = "called"
    /\ generator_calls' =
           Append(generator_calls, GeneratorMessages(SystemFor(ev_message), ev_history, ev_message))
    /\ ev_pc' = "generating"
    /\ UNCHANGED <<outside_evaluated, ev_message, ev_history, reply, evaluation, generator_answers,
                   evaluator_calls, ev_returned>>

\* chat, lines 286-290: the generator answers; evaluate is called with the reply.
Eval_Generated(content) ==
    /\ ev_pc = "generating"
    /\ generator_answers' = Append(generator_answers, content)
    /\ reply' = content
    /\ evaluator_calls' =
           Append(evaluator_calls, [reply |-> content, message |-> ev_message, history |-> ev_history])
    /\ ev_pc' = "evaluating"
    /\ UNCHANGED <<outside_evaluated, ev_message, ev_history, evaluation, generator_calls, ev_returned>>

\* A chat that ignores the evaluation and returns the reply as it is.
Eval_Evaluated_AlwaysAccept(ev) ==
    /\ ev_pc = "evaluating"
    /\ evaluation' = ev
    /\ ev_returned' = reply
    /\ ev_pc' = "returned"
    /\ UNCHANGED <<outside_evaluated, ev_message, ev_history, reply, generator_calls,
                   generator_answers, evaluator_calls>>

\* chat, lines 290-301, and rerun up to its call of the model: an accepted reply
\* is returned; a rejected one makes rerun call the generator again.
Eval_Evaluated(ev) ==
    /\ ev_pc = "evaluating"
    /\ evaluation' = ev
    /\ IF ev.is_acceptable
       THEN /\ ev_returned' = reply
            /\ ev_pc' = "returned"
            /\ UNCHANGED generator_calls
       ELSE /\ generator_calls' =
                   Append(generator_calls,
                          GeneratorMessages(UpdatedSystem(reply, ev.feedback), ev_history, ev_message))
            /\ ev_pc' = "regenerating"
            /\ UNCHANGED ev_returned
    /\ UNCHANGED <<outside_evaluated, ev_message, ev_history, reply, generator_answers, evaluator_calls>>

\* A chat that has the regenerated reply evaluated as well.
Eval_Regenerated_Reevaluate(content) ==
    /\ ev_pc = "regenerating"
    /\ generator_answers' = Append(generator_answers, content)
    /\ reply' = content
    /\ evaluator_calls' =
           Append(evaluator_calls, [reply |-> content, message |-> ev_message, history |-> ev_history])
    /\ ev_pc' = "evaluating"
    /\ UNCHANGED <<outside_evaluated, ev_message, ev_history, evaluation, generator_calls, ev_returned>>

\* rerun, lines 255-258, and chat, lines 300-301: the second answer is the reply
\* and is returned.
Eval_Regenerated(content) ==
    /\ ev_pc = "regenerating"
    /\ generator_answers' = Append(generator_answers, content)
    /\ reply' = content
    /\ ev_returned' = content
    /\ ev_pc' = "returned"
    /\ UNCHANGED <<outside_evaluated, ev_message, ev_history, evaluation, generator_calls,
                   evaluator_calls>>

EvalNext ==
    \/ Eval_Generate
    \/ \E content \in EvalContents : Eval_Generated(content)
    \/ \E ev \in Evaluations : Eval_Evaluated(ev)
    \/ \E content \in EvalContents : Eval_Regenerated(content)

EvalSpec == EvalInit /\ [][EvalNext]_vars

\* C27: for a user message the generator model is called at most twice and the
\* evaluator once. When chat has returned: an accepted reply is returned as it
\* was evaluated, after one generator call; a rejected one is followed by one
\* more generator call, made with the rejected reply and the feedback, whose
\* answer is returned and was not evaluated.
C27_EvaluateOnceRerunOnce ==
    /\ Len(generator_calls) <= 2
    /\ Len(evaluator_calls) <= 1
    /\ Len(generator_answers) <= Len(generator_calls)
    /\ ev_pc = "returned" =>
          /\ Len(evaluator_calls) = 1
          /\ evaluator_calls[1].reply = generator_answers[1]
          /\ IF evaluation.is_acceptable
             THEN /\ Len(generator_calls) = 1
                  /\ ev_returned = generator_answers[1]
             ELSE /\ Len(generator_calls) = 2
                  /\ generator_calls[2][1].content =
                         UpdatedSystem(generator_answers[1], evaluation.feedback)
                  /\ Len(generator_answers) = 2
                  /\ ev_returned = generator_answers[2]

\* The first reply a1 was rejected with feedback f2, the second answer a2 was
\* returned.
C27_Witness ==
    /\ ev_pc = "returned"
    /\ generator_answers = <<"a1", "a2">>
    /\ evaluation = [is_acceptable |-> FALSE, feedback |-> "f2"]
    /\ Len(evaluator_calls) = 1
    /\ ev_returned = "a2"

---------------------------------------------------------------------------
(* The wrapper of src/6_mcp/playwright_mcp_server.py with stdin a pipe: it *)
(* copies its stdin to the child until end of file, then the child's       *)
(* stdout, then the child's stderr, then waits for the child. The client   *)
(* that writes requests and the child (npx @playwright/mcp) are the        *)
(* environment. Pipes hold PipeCap chunks; a read of copyfileobj returns   *)
(* at CopyBuf chunks or at end of file.                                    *)

PipeCap == 2
CopyBuf == 2
MaxRequests == 2
MaxChildWrites == 3

ClientModes == {"rpc", "batch"}
\* What the child writes before it reads its stdin to the end: "out" or "err" chunks.
ChildPlans == SeqsUpTo({"out", "err"}, MaxChildWrites)

\* The streams of the copies: sys.stdin, sys.stdout and sys.stderr are text
\* streams, the pipes of Popen (no text=True) are binary.
StreamType(stream_name) ==
    IF stream_name \in {"sys.stdin", "sys.stdout", "sys.stderr"} THEN "str" ELSE "bytes"

\* fdst.write(buf) of copyfileobj: a text stream takes str, a binary one bytes.
fdst_write(fsrc, fdst) ==
    IF StreamType(fsrc) = StreamType(fdst) THEN Return(fdst) ELSE Raise("TypeError")

\* fsrc.read(COPY_BUFSIZE) returns when the buffer is full or at end of file.
ReadReturns(acc, eof) == Len(acc) >= CopyBuf \/ eof

StdinEof == c_closed /\ in_pipe = <<>>
StdoutEof == ch_pc = "exited" /\ child_out = <<>>
StderrEof == ch_pc = "exited" /\ child_err = <<>>

\* The requests the client has an answer to: the "out" chunks on the wrapper's stdout.
Answered_Requests ==
    Len(SelectSeq(forwarded, LAMBDA w : w.to = "sys.stdout"))

\* Popen has started the child and the sleep is over; stdin is no terminal.
WrapperInit ==
    /\ client_mode \in ClientModes
    /\ c_sent = 0
    /\ c_closed = FALSE
    /\ in_pipe = <<>>
    /\ w_pc = "copy_stdin"
    /\ w_acc = <<>>
    /\ child_stdin = "open"
    /\ ch_pc = "running"
    /\ ch_plan \in ChildPlans
    /\ child_out = <<>>
    /\ child_err = <<>>
    /\ forwarded = <<>>
    /\ returncode = -1
    /\ exit_code = -1
    /\ ResearchIdle
    /\ ChatIdle
    /\ HandlerIdle
    /\ TradingIdle
    /\ EvaluatedIdle
    /\ RoundsIdle

\* The client writes a request; an rpc client writes the next one only when the
\* one before is answered.
Client_Send ==
    /\ ~c_closed
    /\ c_sent < MaxRequests
    /\ Len(in_pipe) < PipeCap
    /\ client_mode = "rpc" => Answered_Requests >= c_sent
    /\ in_pipe' = Append(in_pipe, "req")
    /\ c_sent' = c_sent + 1
    /\ UNCHANGED <<outside_wrapper, client_mode, c_closed, w_pc, w_acc, child_stdin, ch_pc, ch_plan,
                   child_out, child_err, forwarded, returncode, exit_code>>

\* The client closes the wrapper's stdin; an rpc client only when all is answered.
Client_Close ==
    /\ ~c_closed
    /\ client_mode = "rpc" => Answered_Requests >= c_sent
    /\ c_closed' = TRUE
    /\ UNCHANGED <<outside_wrapper, client_mode, c_sent, in_pipe, w_pc, w_acc, child_stdin, ch_pc,
                   ch_plan, child_out, child_err, forwarded, returncode, exit_code>>

\* The read in progress takes a chunk from the pipe it reads.
Fill(pipe) ==
    /\ pipe # <<>>
    /\ Len(w_acc) < CopyBuf
    /\ w_acc' = Append(w_acc, Head(pipe))

\* The read returned: an empty result ends the copy and closes the stream (pc
\* next); anything else is written to fdst, and a TypeError leaves the script.
Copy(fsrc, fdst, next) ==
    IF w_acc = <<>>
    THEN /\ w_pc' = next
         /\ UNCHANGED <<w_acc, forwarded, exit_code>>
    ELSE IF fdst_write(fsrc, fdst).raised
    THEN /\ w_pc' = "crashed"
         /\ exit_code' = 1
         /\ UNCHANGED <<w_acc, forwarded>>
    ELSE /\ forwarded' = Append(forwarded, [to |-> fdst, data |-> w_acc])
         /\ w_acc' = <<>>
         /\ UNCHANGED <<w_pc, exit_code>>

\* line 32, shutil.copyfileobj(sys.stdin, process.stdin): the read fills.
W_Fill_Stdin ==
    /\ w_pc = "copy_stdin"
    /\ Fill(in_pipe)
    /\ in_pipe' = Tail(in_pipe)
    /\ UNCHANGED <<outside_wrapper, client_mode, c_sent, c_closed, w_pc, child_stdin, ch_pc, ch_plan,
                   child_out, child_err, forwarded, returncode, exit_code>>

\* lines 32-33: the read returns; write, or leave the loop and close process.stdin.
W_Copy_Stdin ==
    /\ w_pc = "copy_stdin"
    /\ ReadReturns(w_acc, StdinEof)
    /\ Copy("sys.stdin", "process.stdin", "copy_stdout")
    /\ child_stdin' = IF w_acc = <<>> \/ fdst_write("sys.stdin", "process.stdin").raised
                      THEN "eof" ELSE child_stdin
    /\ UNCHANGED <<outside_wrapper, client_mode, c_sent, c_closed, in_pipe, ch_pc, ch_plan,
                   child_out, child_err, returncode>>

\* line 36, shutil.copyfileobj(process.stdout, sys.stdout): the read fills.
W_Fill_Stdout ==
    /\ w_pc = "copy_stdout"
    /\ Fill(child_out)
    /\ child_out' = Tail(child_out)
    /\ UNCHANGED <<outside_wrapper, client_mode, c_sent, c_closed, in_pipe, w_pc, child_stdin, ch_pc,
                   ch_plan, child_err, forwarded, returncode, exit_code>>

\* lines 36-37: the read returns; write, or leave the loop and close process.stdout.
W_Copy_Stdout ==
    /\ w_pc = "copy_stdout"
    /\ ReadReturns(w_acc, StdoutEof)
    /\ Copy("process.stdout", "sys.stdout", "copy_stderr")
    /\ UNCHANGED <<outside_wrapper, client_mode, c_sent, c_closed, in_pipe, child_stdin, ch_pc,
                   ch_plan, child_out, child_err, returncode>>

\* line 40, shutil.copyfileobj(process.stderr, sys.stderr): the read fills.
W_Fill_Stderr ==
    /\ w_pc = "copy_stderr"
    /\ Fill(child_err)
    /\ child_err' = Tail(child_err)
    /\ UNCHANGED <<outside_wrapper, client_mode, c_sent, c_closed, in_pipe, w_pc, child_stdin, ch_pc,
                   ch_plan, child_out, forwarded, returncode, exit_code>>

\* lines 40-41: the read returns; write, or leave the loop and close process.stderr.
W_Copy_Stderr ==
    /\ w_pc = "copy_stderr"
    /\ ReadReturns(w_acc, StderrEof)
    /\ Copy("process.stderr", "sys.stderr", "wait")
    /\ UNCHANGED <<outside_wrapper, client_mode, c_sent, c_closed, in_pipe, child_stdin, ch_pc,
                   ch_plan, child_out, child_err, returncode>>

\* lines 43 and 49: process.wait() returns and the script exits with returncode.
W_Wait ==
    /\ w_pc = "wait"
    /\ ch_pc = "exited"
    /\ w_pc' = "exited"
    /\ exit_code' = returncode
    /\ UNCHANGED <<outside_wrapper, client_mode, c_sent, c_closed, in_pipe, w_acc, child_stdin, ch_pc,
                   ch_plan, child_out, child_err, forwarded, returncode>>

\* The child makes its next write; it blocks while the pipe is full.
Child_Write ==
    /\ ch_pc = "running"
    /\ w_pc # "crashed"
    /\ ch_plan # <<>>
    /\ IF Head(ch_plan) = "out"
       THEN /\ Len(child_out) < PipeCap
            /\ child_out' = Append(child_out, "out")
            /\ UNCHANGED child_err
       ELSE /\ Len(child_err) < PipeCap
            /\ child_err' = Append(child_err, "err")
            /\ UNCHANGED child_out
    /\ ch_plan' = Tail(ch_plan)
    /\ UNCHANGED <<outside_wrapper, client_mode, c_sent, c_closed, in_pipe, w_pc, w_acc, child_stdin,
                   ch_pc, forwarded, returncode, exit_code>>

\* The child ends: it has made its writes and read its stdin to the end, or the
\* wrapper is gone and its pipes with it.
Child_Exit(rc) ==
    /\ ch_pc = "running"
    /\ (ch_plan = <<>> /\ child_stdin = "eof") \/ w_pc = "crashed"
    /\ ch_pc' = "exited"
    /\ returncode' = rc
    /\ UNCHANGED <<outside_wrapper, client_mode, c_sent, c_closed, in_pipe, w_pc, w_acc, child_stdin,
                   ch_plan, child_out, child_err, forwarded, exit_code>>

WrapperNext ==
    \/ Client_Send
    \/ Client_Close
    \/ W_Fill_Stdin
    \/ W_Copy_Stdin
    \/ W_Fill_Stdout
    \/ W_Copy_Stdout
    \/ W_Fill_Stderr
    \/ W_Copy_Stderr
    \/ W_Wait
    \/ \E rc \in {0, 1} : Child_Exit(rc)
    \/ Child_Write

WrapperSpec == WrapperInit /\ [][WrapperNext]_vars

\* The chunks the child wrote that the wrapper has not written to its own output.
Unforwarded == Len(child_out) + Len(child_err) + Len(w_acc)

\* C30: the wrapper never deadlocks and relays: while it has not exited some
\* step of client, wrapper or child is possible; it is not ended by an exception;
\* and when it has exited, every chunk the child wrote has been forwarded and its
\* exit status is the child's return code.
C30_RelaysWithoutDeadlock ==
    /\ w_pc \notin {"exited", "crashed"} => ENABLED WrapperNext
    /\ w_pc # "crashed"
    /\ w_pc = "exited" => (exit_code = returncode /\ Unforwarded = 0)

---------------------------------------------------------------------------
(* Concurrent runs of the pipeline. Each call of the UI handler run builds *)
(* its own ResearchManager() and drives its generator; the frames of       *)
(* perform_searches of the runs live on one event loop and interleave at   *)
(* every await. tasks, results and num_completed are locals of the frame.  *)

MaxRoundSearches == 2

\* The two event listeners of the UI that call run, each with a queue of its
\* own: one run per listener can be under way at a time.
RunIds == {"click", "submit"}
RoundPlans == { p \in Plans : Len(p) <= MaxRoundSearches /\ \A k \in 1..Len(p) : p[k].query = "qA" }

\* The frame of a run whose perform_searches was not entered yet.
NewRound(plan) ==
    [pc |-> "init", search_plan |-> plan, tasks |-> <<>>, done_queue |-> <<>>,
     num_completed |-> 0, results |-> <<>>, progress |-> <<>>, search_results |-> <<>>]

RoundsInit ==
    /\ rounds \in [RunIds -> { NewRound(p) : p \in RoundPlans }]
    /\ ResearchIdle
    /\ ChatIdle
    /\ HandlerIdle
    /\ TradingIdle
    /\ EvaluatedIdle
    /\ WrapperIdle

\* The tasks of a frame after the event loop ran the first step of each: every
\* search has formatted its input and awaits the search agent.
StartedTasks(plan) ==
    [i \in 1..Len(plan) |-> [CreateTasks(plan)[i] EXCEPT !.state = "running", !.calls = 1]]

\* Run r enters perform_searches: the locals are initialised, the tasks created,
\* and at the first await of the loop the event loop starts them.
Round_Start(r) ==
    /\ rounds[r].pc = "init"
    /\ rounds' = [rounds EXCEPT ![r].pc = "searching",
                                ![r].num_completed = 0,
                                ![r].tasks = StartedTasks(rounds[r].search_plan),
                                ![r].results = <<>>]
    /\ UNCHANGED outside_rounds

\* The search agent answers task i of run r; the task is queued for the loop of r.
Round_Search_Complete(r, i, ext) ==
    /\ i \in 1..Len(rounds[r].tasks)
    /\ rounds[r].tasks[i].state = "running"
    /\ rounds' = [rounds EXCEPT ![r].tasks[i].state = "done",
                                ![r].tasks[i].ext = ext,
                                ![r].tasks[i].completion = search(rounds[r].search_plan[i], ext),
                                ![r].done_queue = Append(@, i)]
    /\ UNCHANGED outside_rounds

\* A results list that is an attribute of the class, one object for all runs.
Round_Consume_ClassList(r) ==
    /\ rounds[r].pc = "searching"
    /\ rounds[r].done_queue # <<>>
    /\ \A j \in 1..Len(rounds[r].tasks) : rounds[r].tasks[j].state # "scheduled"
    /\ LET c == rounds[r].tasks[Head(rounds[r].done_queue)].completion
       IN  rounds' = [ q \in RunIds |->
                         IF q = r
                         THEN [rounds[q] EXCEPT !.results = Aggregate(@, c.val),
                                                !.num_completed = Count(@, c.val),
                                                !.progress = Append(@, ProgressLine(Count(rounds[r].num_completed, c.val),
                                                                                     Len(rounds[r].tasks))),
                                                !.done_queue = Tail(@)]
                         ELSE [rounds[q] EXCEPT !.results = Aggregate(@, c.val)] ]
    /\ UNCHANGED outside_rounds

\* One turn of the loop of run r: await the next finished task, aggregate, count, print.
Round_Consume(r) ==
    /\ rounds[r].pc = "searching"
    /\ rounds[r].done_queue # <<>>
    /\ \A j \in 1..Len(rounds[r].tasks) : rounds[r].tasks[j].state # "scheduled"
    /\ LET c == rounds[r].tasks[Head(rounds[r].done_queue)].completion
       IN  IF c.raised
           THEN rounds' = [rounds EXCEPT ![r].pc = "aborted", ![r].done_queue = Tail(@)]
           ELSE rounds' = [rounds EXCEPT ![r].results = Aggregate(@, c.val),
                                         ![r].num_completed = Count(@, c.val),
                                         ![r].progress = Append(@, ProgressLine(Count(rounds[r].num_completed, c.val),
                                                                                Len(rounds[r].tasks))),
                                         ![r].done_queue = Tail(@)]
    /\ UNCHANGED outside_rounds

\* perform_searches of run r returns its results.
Round_Return(r) ==
    /\ rounds[r].pc = "searching"
    /\ rounds[r].num_completed = Len(rounds[r].tasks)
    /\ rounds' = [rounds EXCEPT ![r].pc = "returned", ![r].search_results = rounds[r].results]
    /\ UNCHANGED outside_rounds

RoundsNext ==
    \/ \E r \in RunIds : Round_Start(r)
    \/ \E r \in RunIds, i \in 1..MaxRoundSearches : Round_Search_Complete(r, i, Ok("t1"))
    \/ \E r \in RunIds, i \in 1..MaxRoundSearches, e \in SearchErrors : Round_Search_Complete(r, i, Err(e))
    \/ \E r \in RunIds : Round_Consume(r)
    \/ \E r \in RunIds : Round_Return(r)

RoundsSpec == RoundsInit /\ [][RoundsNext]_vars

\* The tasks of a frame that finished and were handed to its loop, in task order.
Consumed(f) ==
    SelectSeq([k \in 1..Len(f.tasks) |-> k],
              LAMBDA k : /\ f.tasks[k].state = "done"
                         /\ \A n \in 1..Len(f.done_queue) : f.done_queue[n] # k)

\* The successful texts among the consumed tasks of a frame, as a bag.
ConsumedTexts(f) ==
    BagOfSeq([n \in 1..Len(SelectSeq(Consumed(f), LAMBDA k : f.tasks[k].ext.ok)) |->
                 f.tasks[SelectSeq(Consumed(f), LAMBDA k : f.tasks[k].ext.ok)[n]].ext.val])

\* The step is a turn of the consumer loop of run r that appends the text of
\* the task at the head of its queue.
LoopAppends(r) ==
    /\ rounds[r].pc = "searching"
    /\ rounds[r].done_queue # <<>>
    /\ rounds'[r].done_queue = Tail(rounds[r].done_queue)
    /\ rounds'[r].tasks = rounds[r].tasks
    /\ rounds'[r].results =
          Append(rounds[r].results, rounds[r].tasks[Head(rounds[r].done_queue)].ext.val)

\* C25: the results list of a fan-out round is written only by the consumer
\* loop of its perform_searches, never by the step of a search unit; under
\* every interleaving it holds each successful text that was consumed exactly
\* once, and all of them when perform_searches has returned; and a step of one
\* run changes nothing of another run.
C25_SingleWriter ==
    /\ [][ \A r \in RunIds : (rounds'[r].results # rounds[r].results) => (LoopAppends(r)) ]_vars
    /\ [][ \A r \in RunIds : (rounds'[r].tasks # rounds[r].tasks)
                                => (rounds'[r].results = rounds[r].results) ]_vars
    /\ [][ \A r, q \in RunIds : (r # q /\ rounds'[r] # rounds[r]) => (rounds'[q] = rounds[q]) ]_vars
    /\ [](\A r \in RunIds :
             /\ BagOfSeq(rounds[r].results) = ConsumedTexts(rounds[r])
             /\ rounds[r].pc = "returned" =>
                   /\ rounds[r].search_results = rounds[r].results
                   /\ Len(rounds[r].results) =
                         Cardinality({ k \in 1..Len(rounds[r].tasks) : rounds[r].tasks[k].ext.ok }))

\* Two runs are in their loops at once: the one has consumed a success and
\* has a finished task waiting, the other has consumed a success and a failure.
C25_Witness ==
    /\ rounds["click"].pc = "searching"
    /\ Len(rounds["click"].results) = 1
    /\ rounds["click"].done_queue # <<>>
    /\ rounds["submit"].pc = "searching"
    /\ rounds["submit"].num_completed = 2
    /\ Len(rounds["submit"].results) = 1

====
